---- MODULE Spec2Model ----
(***************************************************************************)
(* A model of the disk simulator's filesystem (class DiskFS):              *)
(* the backing image (superblock, block bitmap, inode bitmap, inode table, *)
(* root directory block, data blocks), the in-memory superblock, the mount *)
(* flag and the error state of the file stream.                            *)
(*                                                                         *)
(* The geometry is scaled down: the source has BLOCK_SIZE = 4096,          *)
(* MAX_INODES = 1024, MAX_BLOCKS = 25600, 16 direct blocks per inode and   *)
(* 4096 / sizeof(DirEntry) = 113 directory slots.  The scaled geometry     *)
(* keeps the relations the code depends on: the directory has fewer usable *)
(* slots than there are usable inodes (112 < 1023), a file holds fewer     *)
(* blocks than the data region, and the block bitmap fits in one block.    *)
(* Time stamps (create_time, modify_time) are left out.                    *)
(* Host I/O never fails by itself: the only stream failure modelled is the *)
(* one the code produces, open() on a stream that is already open.         *)
(*                                                                         *)
(* The command dispatch (ThreadPool, consumer_thread, main) is modelled on *)
(* top of it: the task queue with its mutex and condition variable, the    *)
(* running flag, the filesystem mutex, the workers and the producer.       *)
(***************************************************************************)
EXTENDS Integers, Sequences, FiniteSets, TLC

\* ---- geometry (scaled; see the header) ----
BLOCK_SIZE == 3
INODE_SIZE == 1
MAX_INODES == 4
MAX_BLOCKS == 8
NDIRECT == 2
DIR_ENTRIES == 3
MAX_FILENAME == 28

\* ---- inputs the actions draw from ----
MaxByte == 2

LongName == "abcdefghijklmnopqrstuvwxyzab"
Names == {".", "a", "b", "", LongName}
DataNames == {"a", "", LongName}
InodeArgs == -1..MAX_INODES
\* Arguments the properties range over.
Offsets == 0..(NDIRECT * BLOCK_SIZE + 1)
Sizes == 0..(NDIRECT * BLOCK_SIZE + 1)
\* <<size, offset>> of the writes of Spec: refused, inside one block, across
\* two blocks.
WriteShapes == { <<0, 0>>, <<1, 0>>, <<BLOCK_SIZE + 1, 0>> }
\* <<size, offset>> of the writes of SpecData: refused, one byte at the
\* start, across the block boundary, into the second block only, more than
\* a file can hold, past the last block a file can hold.
DataWriteShapes ==
  { <<0, 0>>, <<1, 0>>, <<2, BLOCK_SIZE - 1>>, <<1, BLOCK_SIZE>>,
    <<NDIRECT * BLOCK_SIZE + 1, 0>>, <<1, NDIRECT * BLOCK_SIZE + 1>> }

Min(a, b) == IF a < b THEN a ELSE b
Max(a, b) == IF a < b THEN b ELSE a

\* The buffer a caller passes: size bytes, none of them zero, the byte at
\* position k depending on k so that misplaced bytes are visible.
Buf(v, size) == [k \in 1..size |-> ((v + k) % MaxByte) + 1]

\* The buffer of the writes of Spec: size bytes of value 1.
Ones(size) == [k \in 1..size |-> 1]

\* ---- layout, as format computes it ----
Layout(maxBlocks, maxInodes, inodeSize, blockSize) ==
  LET super_block_size == 1
      block_bitmap_total_bytes == (maxBlocks + 7) \div 8
      block_bitmap_size == (block_bitmap_total_bytes + blockSize - 1) \div blockSize
      inode_bitmap_total_bytes == (maxInodes + 7) \div 8
      inode_bitmap_size == (inode_bitmap_total_bytes + blockSize - 1) \div blockSize
      inode_area_size == (maxInodes * inodeSize + blockSize - 1) \div blockSize
      bb == super_block_size
      ib == bb + block_bitmap_size
      is == ib + inode_bitmap_size
  IN [ block_bitmap_size |-> block_bitmap_size,
       inode_bitmap_size |-> inode_bitmap_size,
       inode_blocks |-> inode_area_size,
       data_blocks |-> maxBlocks - (super_block_size + block_bitmap_size
                                    + inode_bitmap_size + inode_area_size),
       block_bitmap |-> bb,
       inode_bitmap |-> ib,
       inode_start |-> is,
       data_start |-> is + inode_area_size ]

L == Layout(MAX_BLOCKS, MAX_INODES, INODE_SIZE, BLOCK_SIZE)

DataRegion == L.data_start .. (L.data_start + L.data_blocks - 1)

\* ---- the inode table's place on the disk ----
\* The source's constants (disk_fs.h).
SRC_BLOCK_SIZE == 4096
SRC_INODE_SIZE == 96
SRC_MAX_INODES == 1024
SRC_MAX_BLOCKS == 25600
SRC_NDIRECT == 16

\* sizeof(struct Inode) as a compiler lays it out: inode_num, size and
\* blocks[16] (4 bytes each), type and used (1 byte each), padding up to
\* the alignment of time_t, create_time and modify_time, padding up to the
\* alignment of the struct.
RoundUp(n, a) == ((n + a - 1) \div a) * a

sizeof_Inode(time_size, time_align) ==
  RoundUp(RoundUp(4 + 4 + 4 * SRC_NDIRECT + 1 + 1, time_align) + 2 * time_size,
          Max(4, time_align))

\* The builds: 64-bit time_t aligned to 8 (LP64, 32-bit ARM), 64-bit time_t
\* aligned to 4 (i386 with a 64-bit time_t), 32-bit time_t.
TimeAbis == { <<8, 8>>, <<8, 4>>, <<4, 4>> }

\* The geometries get_inode_pos is checked on: the source's under each
\* build, and the scaled one of this model, whose records take INODE_SIZE.
Geometries ==
  { [ max_blocks |-> SRC_MAX_BLOCKS, max_inodes |-> SRC_MAX_INODES,
      inode_size |-> SRC_INODE_SIZE, block_size |-> SRC_BLOCK_SIZE,
      sizeof_inode |-> sizeof_Inode(abi[1], abi[2]) ] : abi \in TimeAbis }
  \cup
  { [ max_blocks |-> MAX_BLOCKS, max_inodes |-> MAX_INODES,
      inode_size |-> INODE_SIZE, block_size |-> BLOCK_SIZE,
      sizeof_inode |-> INODE_SIZE ] }

\* The layout format writes into the superblock for geometry g.
LayoutOf(g) == Layout(g.max_blocks, g.max_inodes, g.inode_size, g.block_size)

\* get_inode_pos that takes the block number for a byte position.
get_inode_pos_blocks(g, inode_num) ==
  IF inode_num >= g.max_inodes THEN 0
  ELSE LayoutOf(g).inode_start + inode_num * g.sizeof_inode

get_inode_pos(g, inode_num) ==
  IF inode_num >= g.max_inodes THEN 0
  ELSE LayoutOf(g).inode_start * g.block_size + inode_num * g.sizeof_inode

PosIdle ==
  [ geometry |-> [ max_blocks |-> MAX_BLOCKS, max_inodes |-> MAX_INODES,
                   inode_size |-> INODE_SIZE, block_size |-> BLOCK_SIZE,
                   sizeof_inode |-> INODE_SIZE ],
    inode_num |-> 0, pos |-> 0 ]

\* ---- records ----
ZeroSuperBlock ==
  [ magic |-> "", block_size |-> 0, total_blocks |-> 0, inode_blocks |-> 0,
    data_blocks |-> 0, total_inodes |-> 0, free_blocks |-> 0, free_inodes |-> 0,
    block_bitmap |-> 0, inode_bitmap |-> 0, inode_start |-> 0, data_start |-> 0 ]

ZeroInode ==
  [ inode_num |-> 0, size |-> 0, blocks |-> [k \in 0..(NDIRECT - 1) |-> 0],
    type |-> 0, used |-> 0 ]

ZeroDirEntry == [ name |-> "", inode_num |-> 0, valid |-> 0 ]

ZeroBlock == [k \in 0..(BLOCK_SIZE - 1) |-> 0]

\* A backing file filled with zero bytes: what a fresh file reads as once
\* format has extended it, and the foreign image mount rejects.
ZeroImage(exists) ==
  [ exists |-> exists,
    sb |-> ZeroSuperBlock,
    block_bitmap |-> [i \in 0..(L.data_blocks - 1) |-> 0],
    inode_bitmap |-> [i \in 0..(MAX_INODES - 1) |-> 0],
    inodes |-> [i \in 0..(MAX_INODES - 1) |-> ZeroInode],
    dir |-> [i \in 0..(DIR_ENTRIES - 1) |-> ZeroDirEntry],
    data |-> [b \in DataRegion |-> ZeroBlock] ]

VARIABLES image, super_block, is_mounted, disk_file_fail

\* The command dispatch: the task queue with its mutex and the workers
\* blocked on its condition variable, the shutdown flag, the filesystem
\* mutex, each worker's position and task, the producer's position, and the
\* order in which tasks left the queue (a history the properties read).
VARIABLES task_queue, queue_mutex, cv_waiters, running, disk_mutex,
          worker, producer, dequeued, build

\* ThreadPool's counter of the tasks taken and not yet finished, and the
\* tasks in the order their handlers took the filesystem mutex,
\* and the result each finished task was left with (what the worker prints).
VARIABLES active_tasks, executed, results

\* The last get_inode_pos call: the geometry and record size of the build,
\* the inode number asked for and the byte position answered.
VARIABLES pos_calc

fs_vars == <<image, super_block, is_mounted, disk_file_fail>>

pool_vars == <<task_queue, queue_mutex, cv_waiters, running, disk_mutex,
               worker, producer, dequeued, build, active_tasks, executed,
               results>>

layout_vars == <<pos_calc>>

vars == <<image, super_block, is_mounted, disk_file_fail,
          task_queue, queue_mutex, cv_waiters, running, disk_mutex,
          worker, producer, dequeued, build, active_tasks, executed,
          results, pos_calc>>

\* The state the operations work on, as one value.
St == [ image |-> image, sb |-> super_block, mounted |-> is_mounted,
        fail |-> disk_file_fail ]

\* ---- block device ----
\* read_block / write_block succeed when the block number is in range and
\* the stream is good.
BlockIoOk(st, block_num) == block_num < st.sb.total_blocks /\ ~st.fail
\* write_super_block that leaves the image's superblock as it is.
write_super_block_skip(st) == [st |-> st, ret |-> ~st.fail]

write_super_block(st) ==
  IF st.fail THEN [st |-> st, ret |-> FALSE]
  ELSE [st |-> [st EXCEPT !.image.sb = st.sb], ret |-> TRUE]

\* ---- bitmaps ----
\* set_block_bitmap that leaves free_blocks as it is.
set_block_bitmap_keep_count(st, block_num, used) ==
  LET data_end == st.sb.data_start + st.sb.data_blocks
      idx == block_num - st.sb.data_start
      s1 == [st EXCEPT !.image.block_bitmap[idx] = IF used THEN 1 ELSE 0]
  IN IF block_num < st.sb.data_start \/ block_num >= data_end
       THEN [st |-> st, ret |-> FALSE]
     ELSE IF ~BlockIoOk(st, st.sb.block_bitmap)
       THEN [st |-> st, ret |-> FALSE]
     ELSE write_super_block(s1)

\* set_block_bitmap that moves the counter on every call, whatever the bit
\* held before.
set_block_bitmap_always_count(st, block_num, used) ==
  LET data_end == st.sb.data_start + st.sb.data_blocks
      idx == block_num - st.sb.data_start
      free1 == IF used THEN st.sb.free_blocks - 1 ELSE st.sb.free_blocks + 1
      s1 == [st EXCEPT !.sb.free_blocks = free1,
                       !.image.block_bitmap[idx] = IF used THEN 1 ELSE 0]
  IN IF block_num < st.sb.data_start \/ block_num >= data_end
       THEN [st |-> st, ret |-> FALSE]
     ELSE IF ~BlockIoOk(st, st.sb.block_bitmap)
       THEN [st |-> st, ret |-> FALSE]
     ELSE write_super_block(s1)

\* set_block_bitmap that never sets a bit: a block taken stays free.
set_block_bitmap_never_set(st, block_num, used) ==
  LET data_end == st.sb.data_start + st.sb.data_blocks
      idx == block_num - st.sb.data_start
      old == st.image.block_bitmap[idx]
      free1 == IF ~used /\ old = 1 THEN st.sb.free_blocks + 1 ELSE st.sb.free_blocks
      s1 == [st EXCEPT !.sb.free_blocks = free1,
                       !.image.block_bitmap[idx] = IF used THEN old ELSE 0]
  IN IF block_num < st.sb.data_start \/ block_num >= data_end
       THEN [st |-> st, ret |-> FALSE]
     ELSE IF ~BlockIoOk(st, st.sb.block_bitmap)
       THEN [st |-> st, ret |-> FALSE]
     ELSE write_super_block(s1)

set_block_bitmap(st, block_num, used) ==
  LET data_end == st.sb.data_start + st.sb.data_blocks
      idx == block_num - st.sb.data_start
      bits_per_block == BLOCK_SIZE * 8
      bitmap_block_idx == idx \div bits_per_block
      target_bitmap_block == st.sb.block_bitmap + bitmap_block_idx
      old == st.image.block_bitmap[idx]
      free1 == IF used
               THEN (IF old = 0 THEN st.sb.free_blocks - 1 ELSE st.sb.free_blocks)
               ELSE (IF old = 1 THEN st.sb.free_blocks + 1 ELSE st.sb.free_blocks)
      s1 == [st EXCEPT !.sb.free_blocks = free1,
                       !.image.block_bitmap[idx] = IF used THEN 1 ELSE 0]
  IN IF block_num < st.sb.data_start \/ block_num >= data_end
       THEN [st |-> st, ret |-> FALSE]
     ELSE IF bitmap_block_idx >= L.block_bitmap_size
       THEN [st |-> st, ret |-> FALSE]
     ELSE IF ~BlockIoOk(st, target_bitmap_block)
       THEN [st |-> st, ret |-> FALSE]
     ELSE write_super_block(s1)

\* set_inode_bitmap that sets bits and never clears one.
set_inode_bitmap_no_clear(st, inode_num, used) ==
  LET old == st.image.inode_bitmap[inode_num]
      free1 == IF used /\ old = 0 THEN st.sb.free_inodes - 1 ELSE st.sb.free_inodes
      s1 == [st EXCEPT !.sb.free_inodes = free1,
                       !.image.inode_bitmap[inode_num] = IF used THEN 1 ELSE old]
  IN IF inode_num >= st.sb.total_inodes
       THEN [st |-> st, ret |-> FALSE]
     ELSE IF ~BlockIoOk(st, st.sb.inode_bitmap)
       THEN [st |-> st, ret |-> FALSE]
     ELSE write_super_block(s1)

\* set_inode_bitmap without the "was it set" test of the clearing branch.
set_inode_bitmap_keep_count(st, inode_num, used) ==
  LET old == st.image.inode_bitmap[inode_num]
      free1 == IF used /\ old = 0 THEN st.sb.free_inodes - 1 ELSE st.sb.free_inodes
      s1 == [st EXCEPT !.sb.free_inodes = free1,
                       !.image.inode_bitmap[inode_num] = IF used THEN 1 ELSE 0]
  IN IF inode_num >= st.sb.total_inodes
       THEN [st |-> st, ret |-> FALSE]
     ELSE IF ~BlockIoOk(st, st.sb.inode_bitmap)
       THEN [st |-> st, ret |-> FALSE]
     ELSE write_super_block(s1)

set_inode_bitmap(st, inode_num, used) ==
  LET bits_per_block == BLOCK_SIZE * 8
      bitmap_block_idx == inode_num \div bits_per_block
      target_bitmap_block == st.sb.inode_bitmap + bitmap_block_idx
      old == st.image.inode_bitmap[inode_num]
      free1 == IF used
               THEN (IF old = 0 THEN st.sb.free_inodes - 1 ELSE st.sb.free_inodes)
               ELSE (IF old = 1 THEN st.sb.free_inodes + 1 ELSE st.sb.free_inodes)
      s1 == [st EXCEPT !.sb.free_inodes = free1,
                       !.image.inode_bitmap[inode_num] = IF used THEN 1 ELSE 0]
  IN IF inode_num >= st.sb.total_inodes
       THEN [st |-> st, ret |-> FALSE]
     ELSE IF bitmap_block_idx >= L.inode_bitmap_size
       THEN [st |-> st, ret |-> FALSE]
     ELSE IF ~BlockIoOk(st, target_bitmap_block)
       THEN [st |-> st, ret |-> FALSE]
     ELSE write_super_block(s1)

\* find_free_block without the bitmap: the first block of the data region.
find_free_block_first(st) ==
  IF ~BlockIoOk(st, st.sb.block_bitmap) THEN -1 ELSE st.sb.data_start

\* The scan reads the first bitmap block only; the data region of the
\* scaled geometry, like the source's, has fewer blocks than that block has
\* bits.
\* find_free_block that returns the index inside the bitmap, without the
\* start of the data region.
find_free_block_relative(st) ==
  LET free == { i \in 0..(st.sb.data_blocks - 1) : st.image.block_bitmap[i] = 0 }
  IN IF ~BlockIoOk(st, st.sb.block_bitmap) THEN -1
     ELSE IF free = {} THEN -1
     ELSE CHOOSE i \in free : \A j \in free : i <= j

find_free_block(st) ==
  LET free == { i \in 0..(st.sb.data_blocks - 1) : st.image.block_bitmap[i] = 0 }
  IN IF ~BlockIoOk(st, st.sb.block_bitmap) THEN -1
     ELSE IF free = {} THEN -1
     ELSE st.sb.data_start + (CHOOSE i \in free : \A j \in free : i <= j)
\* find_free_inode that scans the bitmap from its last bit down.
find_free_inode_last(st) ==
  LET free == { i \in 0..(st.sb.total_inodes - 1) : st.image.inode_bitmap[i] = 0 }
  IN IF ~BlockIoOk(st, st.sb.inode_bitmap) THEN -1
     ELSE IF free = {} THEN -1
     ELSE CHOOSE i \in free : \A j \in free : i >= j

find_free_inode(st) ==
  LET free == { i \in 0..(st.sb.total_inodes - 1) : st.image.inode_bitmap[i] = 0 }
  IN IF ~BlockIoOk(st, st.sb.inode_bitmap) THEN -1
     ELSE IF free = {} THEN -1
     ELSE CHOOSE i \in free : \A j \in free : i <= j

\* ---- format / mount / unmount ----
format(st) ==
  IF st.mounted
    THEN \* open() on the stream that mount left open fails and sets failbit
         [st |-> [st EXCEPT !.fail = TRUE], ret |-> FALSE]
  ELSE
    LET sb0 == [ magic |-> "SIMFSv1",
                 block_size |-> BLOCK_SIZE,
                 total_blocks |-> MAX_BLOCKS,
                 inode_blocks |-> L.inode_blocks,
                 data_blocks |-> L.data_blocks,
                 total_inodes |-> MAX_INODES,
                 free_blocks |-> L.data_blocks,
                 free_inodes |-> MAX_INODES,
                 block_bitmap |-> L.block_bitmap,
                 inode_bitmap |-> L.inode_bitmap,
                 inode_start |-> L.inode_start,
                 data_start |-> L.data_start ]
        base == IF st.image.exists THEN st.image ELSE ZeroImage(TRUE)
        s1 == [st EXCEPT !.fail = FALSE, !.sb = sb0,
                 !.image = [base EXCEPT
                    !.sb = sb0,
                    !.block_bitmap = [i \in 0..(L.data_blocks - 1) |-> 0],
                    !.inode_bitmap = [i \in 0..(MAX_INODES - 1) |-> 0]]]
        s2 == set_inode_bitmap(s1, 0, TRUE).st
        s3 == [s2 EXCEPT !.image.inodes =
                 [i \in 0..(MAX_INODES - 1) |->
                    IF i = 0 THEN s2.image.inodes[0]
                    ELSE [ZeroInode EXCEPT !.inode_num = i]]]
        root_block == find_free_block(s3)
        root_inode == [ZeroInode EXCEPT !.type = 2, !.used = 1,
                                        !.blocks[0] = root_block,
                                        !.size = BLOCK_SIZE]
        s4 == [s3 EXCEPT !.image.inodes[0] = root_inode]
        s5 == set_block_bitmap(s4, root_block, TRUE).st
        s6 == [s5 EXCEPT !.image.dir =
                 [i \in 0..(DIR_ENTRIES - 1) |->
                    IF i = 0 THEN [name |-> ".", inode_num |-> 0, valid |-> 1]
                    ELSE ZeroDirEntry]]
    IN IF root_block = -1 THEN [st |-> s3, ret |-> FALSE]
       ELSE [st |-> s6, ret |-> TRUE]

\* mount without the test of the magic.
mount_any_magic(st) ==
  IF st.mounted THEN [st |-> st, ret |-> TRUE]
  ELSE IF ~st.image.exists
    THEN [st |-> [st EXCEPT !.fail = TRUE], ret |-> FALSE]
  ELSE [st |-> [st EXCEPT !.fail = FALSE, !.sb = st.image.sb, !.mounted = TRUE],
        ret |-> TRUE]

mount(st) ==
  IF st.mounted THEN [st |-> st, ret |-> TRUE]
  ELSE IF ~st.image.exists
    THEN [st |-> [st EXCEPT !.fail = TRUE], ret |-> FALSE]
  ELSE IF st.image.sb.magic # "SIMFSv1"
    THEN [st |-> [st EXCEPT !.fail = FALSE, !.sb = st.image.sb], ret |-> FALSE]
  ELSE [st |-> [st EXCEPT !.fail = FALSE, !.sb = st.image.sb, !.mounted = TRUE],
        ret |-> TRUE]

unmount(st) ==
  IF ~st.mounted THEN [st |-> st, ret |-> TRUE]
  ELSE [st |-> [write_super_block(st).st EXCEPT !.mounted = FALSE], ret |-> TRUE]

\* ---- file operations ----
\* list_files without the test of the mount flag.
list_files_unguarded(st) ==
  LET slots == [k \in 1..DIR_ENTRIES |-> [slot |-> k - 1, e |-> st.image.dir[k - 1]]]
      kept == SelectSeq(slots,
                LAMBDA x : x.e.valid # 0 /\ ~(x.slot = 0 /\ x.e.name = "."))
  IN IF st.fail THEN << >>
     ELSE [k \in 1..Len(kept) |-> kept[k].e]

\* The root directory block as list_files walks it.  A failed stream leaves
\* root_inode indeterminate, and every value of it ends in the empty list:
\* either the type test or read_block rejects it.
list_files(st) ==
  LET root_inode == st.image.inodes[0]
      slots == [k \in 1..DIR_ENTRIES |-> [slot |-> k - 1, e |-> st.image.dir[k - 1]]]
      kept == SelectSeq(slots,
                LAMBDA x : x.e.valid # 0 /\ ~(x.slot = 0 /\ x.e.name = "."))
  IN IF ~st.mounted THEN << >>
     ELSE IF st.fail THEN << >>
     ELSE IF root_inode.type # 2 THEN << >>
     ELSE IF ~BlockIoOk(st, root_inode.blocks[0]) THEN << >>
     ELSE [k \in 1..Len(kept) |-> kept[k].e]

\* create_file that takes the highest free directory slot.
create_file_last_slot(st, name) ==
  IF ~st.mounted \/ name = "" \/ Len(name) >= MAX_FILENAME
    THEN [st |-> st, ret |-> -1]
  ELSE
    LET s0 == [st EXCEPT !.fail = FALSE]
        dir_list == list_files(s0)
        root_inode == s0.image.inodes[0]
        inode_num == find_free_inode(s0)
        new_inode == [ZeroInode EXCEPT !.type = 1, !.used = 1]
        s1 == [s0 EXCEPT !.image.inodes[inode_num] = new_inode]
        s2 == set_inode_bitmap(s1, inode_num, TRUE).st
        free_slots == { i \in 1..(DIR_ENTRIES - 1) : s2.image.dir[i].valid = 0 }
        free_index == IF free_slots = {} THEN DIR_ENTRIES
                      ELSE CHOOSE i \in free_slots : \A j \in free_slots : i >= j
        s3 == [s2 EXCEPT !.image.dir[free_index] =
                 [name |-> name, inode_num |-> inode_num, valid |-> 1]]
    IN IF \E k \in 1..Len(dir_list) :
            dir_list[k].valid # 0 /\ dir_list[k].name = name
         THEN [st |-> s0, ret |-> -1]
       ELSE IF root_inode.type # 2 THEN [st |-> s0, ret |-> -1]
       ELSE IF root_inode.blocks[0] = 0 THEN [st |-> s0, ret |-> -1]
       ELSE IF inode_num = -1 THEN [st |-> s0, ret |-> -1]
       ELSE IF ~BlockIoOk(s2, root_inode.blocks[0])
         THEN [st |-> set_inode_bitmap(s2, inode_num, FALSE).st, ret |-> -1]
       ELSE IF free_index = DIR_ENTRIES
         THEN [st |-> set_inode_bitmap(s2, inode_num, FALSE).st, ret |-> -1]
       ELSE [st |-> s3, ret |-> inode_num]

create_file(st, name) ==
  IF ~st.mounted \/ name = "" \/ Len(name) >= MAX_FILENAME
    THEN [st |-> st, ret |-> -1]
  ELSE
    LET s0 == [st EXCEPT !.fail = FALSE]
        dir_list == list_files(s0)
        root_inode == s0.image.inodes[0]
        inode_num == find_free_inode(s0)
        new_inode == [ZeroInode EXCEPT !.type = 1, !.used = 1]
        s1 == [s0 EXCEPT !.image.inodes[inode_num] = new_inode]
        s2 == set_inode_bitmap(s1, inode_num, TRUE).st
        free_slots == { i \in 1..(DIR_ENTRIES - 1) : s2.image.dir[i].valid = 0 }
        free_index == IF free_slots = {} THEN DIR_ENTRIES
                      ELSE CHOOSE i \in free_slots : \A j \in free_slots : i <= j
        s3 == [s2 EXCEPT !.image.dir[free_index] =
                 [name |-> name, inode_num |-> inode_num, valid |-> 1]]
    IN IF \E k \in 1..Len(dir_list) :
            dir_list[k].valid # 0 /\ dir_list[k].name = name
         THEN [st |-> s0, ret |-> -1]
       ELSE IF root_inode.type # 2 THEN [st |-> s0, ret |-> -1]
       ELSE IF root_inode.blocks[0] = 0 THEN [st |-> s0, ret |-> -1]
       ELSE IF inode_num = -1 THEN [st |-> s0, ret |-> -1]
       ELSE IF ~BlockIoOk(s2, root_inode.blocks[0])
         THEN [st |-> set_inode_bitmap(s2, inode_num, FALSE).st, ret |-> -1]
       ELSE IF free_index = DIR_ENTRIES
         THEN [st |-> set_inode_bitmap(s2, inode_num, FALSE).st, ret |-> -1]
       ELSE [st |-> s3, ret |-> inode_num]

open_file(st, name) ==
  LET entries == list_files(st)
      hits == { k \in 1..Len(entries) :
                  entries[k].valid # 0 /\ entries[k].name = name }
  IN IF ~st.mounted THEN -1
     ELSE IF hits = {} THEN -1
     ELSE entries[CHOOSE k \in hits : \A j \in hits : k <= j].inode_num

\* The read loop: returns the bytes copied so far, or err when read_block fails.
RECURSIVE read_loop(_, _, _, _, _)
read_loop(st, inode, read_size, data, current_offset) ==
  LET block_idx == current_offset \div BLOCK_SIZE
      block_num == inode.blocks[block_idx]
      in_block_offset == current_offset % BLOCK_SIZE
      read_from_block == Min(BLOCK_SIZE - in_block_offset, read_size - Len(data))
      block_buffer == st.image.data[block_num]
      piece == [k \in 1..read_from_block |-> block_buffer[in_block_offset + k - 1]]
  IN IF Len(data) >= read_size THEN [ret |-> Len(data), data |-> data]
     ELSE IF block_idx >= NDIRECT THEN [ret |-> Len(data), data |-> data]
     ELSE IF block_num = 0 THEN [ret |-> Len(data), data |-> data]
     ELSE IF ~BlockIoOk(st, block_num) THEN [ret |-> -1, data |-> data]
     ELSE read_loop(st, inode, read_size, data \o piece,
                    current_offset + read_from_block)

\* u is what the call returns when the stream has failed: the inode read
\* leaves the local record indeterminate, and the call ends in -1 or in 0
\* without copying anything.
read_file(st, inode_num, size, offset, u) ==
  LET inode == st.image.inodes[inode_num]
      \* size_t max_read = inode.size - offset: a negative difference wraps to
      \* a value above every size, so the test "max_read <= 0" is "= 0"
      diff == inode.size - offset
      read_size == IF diff < 0 THEN size ELSE Min(size, diff)
  IN IF ~st.mounted \/ inode_num < 0 \/ inode_num >= st.sb.total_inodes
       THEN [ret |-> -1, data |-> << >>]
     ELSE IF st.fail THEN [ret |-> u, data |-> << >>]
     ELSE IF inode.used = 0 \/ inode.type # 1 THEN [ret |-> -1, data |-> << >>]
     ELSE IF diff = 0 THEN [ret |-> 0, data |-> << >>]
     ELSE IF read_size = 0 THEN [ret |-> 0, data |-> << >>]
     ELSE read_loop(st, inode, read_size, << >>, offset)
\* write_data_block that stores the block without the caller's bytes.
write_data_block_blank(st, block_num, block_buffer) ==
  IF block_num = st.image.inodes[0].blocks[0] THEN st
  ELSE [st EXCEPT !.image.data[block_num] = ZeroBlock]

\* write_block of a data block.  The root directory block holds directory
\* entries, not file bytes: a file write that lands on it destroys them.
write_data_block(st, block_num, block_buffer) ==
  IF block_num = st.image.inodes[0].blocks[0]
    THEN [st EXCEPT !.image.dir = [i \in 0..(DIR_ENTRIES - 1) |->
                                     [name |-> "?", inode_num |-> 0, valid |-> 0]]]
  ELSE [st EXCEPT !.image.data[block_num] = block_buffer]

\* The write loop overwriting an allocated block through a block it takes
\* from the bitmap anew.
RECURSIVE write_loop_realloc(_, _, _, _, _)
write_loop_realloc(st, inode, buffer, bytes_written, current_offset) ==
  LET size == Len(buffer)
      block_idx == current_offset \div BLOCK_SIZE
      fresh == find_free_block(st)
      inode1 == [inode EXCEPT !.blocks[block_idx] = fresh]
      s1 == set_block_bitmap(st, fresh, TRUE).st
      in_block_offset == current_offset % BLOCK_SIZE
      write_to_block == Min(BLOCK_SIZE - in_block_offset, size - bytes_written)
      block_buffer == [k \in 0..(BLOCK_SIZE - 1) |->
                         IF k >= in_block_offset /\ k < in_block_offset + write_to_block
                         THEN buffer[bytes_written + (k - in_block_offset) + 1]
                         ELSE 0]
      done == [st |-> st, inode |-> inode, bytes_written |-> bytes_written,
               err |-> FALSE]
  IN IF bytes_written >= size THEN done
     ELSE IF block_idx >= NDIRECT THEN done
     ELSE IF fresh = -1 THEN done
     ELSE IF ~BlockIoOk(s1, fresh)
       THEN [st |-> s1, inode |-> inode1, bytes_written |-> bytes_written,
             err |-> TRUE]
     ELSE write_loop_realloc(write_data_block(s1, fresh, block_buffer), inode1,
                             buffer, bytes_written + write_to_block,
                             current_offset + write_to_block)

\* The write loop: returns the state, the in-memory inode, the bytes
\* written and whether the loop returned -1 (err).
RECURSIVE write_loop(_, _, _, _, _)
write_loop(st, inode, buffer, bytes_written, current_offset) ==
  LET size == Len(buffer)
      block_idx == current_offset \div BLOCK_SIZE
      old_num == inode.blocks[block_idx]
      fresh == find_free_block(st)
      block_num == IF old_num = 0 THEN fresh ELSE old_num
      inode1 == IF old_num = 0 THEN [inode EXCEPT !.blocks[block_idx] = block_num]
                ELSE inode
      s1 == IF old_num = 0 THEN set_block_bitmap(st, block_num, TRUE).st ELSE st
      before == IF old_num = 0 THEN ZeroBlock ELSE st.image.data[block_num]
      in_block_offset == current_offset % BLOCK_SIZE
      write_to_block == Min(BLOCK_SIZE - in_block_offset, size - bytes_written)
      block_buffer == [k \in 0..(BLOCK_SIZE - 1) |->
                         IF k >= in_block_offset /\ k < in_block_offset + write_to_block
                         THEN buffer[bytes_written + (k - in_block_offset) + 1]
                         ELSE before[k]]
      done == [st |-> st, inode |-> inode, bytes_written |-> bytes_written,
               err |-> FALSE]
  IN IF bytes_written >= size THEN done
     ELSE IF block_idx >= NDIRECT THEN done
     ELSE IF old_num = 0 /\ fresh = -1 THEN done
     ELSE IF old_num # 0 /\ ~BlockIoOk(st, block_num)
       THEN [done EXCEPT !.err = TRUE]
     ELSE IF ~BlockIoOk(s1, block_num)
       THEN [st |-> s1, inode |-> inode1, bytes_written |-> bytes_written,
             err |-> TRUE]
     ELSE write_loop(write_data_block(s1, block_num, block_buffer), inode1,
                     buffer, bytes_written + write_to_block,
                     current_offset + write_to_block)

\* write_file that stores offset + bytes_written as the size, smaller than
\* the old size or not.
write_file_set_size(st, inode_num, buffer, offset, u) ==
  LET inode == st.image.inodes[inode_num]
      r == write_loop(st, inode, buffer, 0, offset)
      inode2 == [r.inode EXCEPT !.size = offset + r.bytes_written]
  IN IF ~st.mounted \/ inode_num < 0 \/ inode_num >= st.sb.total_inodes
        \/ Len(buffer) = 0
       THEN [st |-> st, ret |-> -1]
     ELSE IF st.fail THEN [st |-> st, ret |-> u]
     ELSE IF inode.used = 0 \/ inode.type # 1 THEN [st |-> st, ret |-> -1]
     ELSE IF r.err THEN [st |-> r.st, ret |-> -1]
     ELSE [st |-> [r.st EXCEPT !.image.inodes[inode_num] = inode2],
           ret |-> r.bytes_written]

\* write_file that answers the size it was asked to write.
write_file_full_count(st, inode_num, buffer, offset, u) ==
  LET inode == st.image.inodes[inode_num]
      r == write_loop(st, inode, buffer, 0, offset)
      inode2 == IF offset + r.bytes_written > r.inode.size
                THEN [r.inode EXCEPT !.size = offset + r.bytes_written]
                ELSE r.inode
  IN IF ~st.mounted \/ inode_num < 0 \/ inode_num >= st.sb.total_inodes
        \/ Len(buffer) = 0
       THEN [st |-> st, ret |-> -1]
     ELSE IF st.fail THEN [st |-> st, ret |-> u]
     ELSE IF inode.used = 0 \/ inode.type # 1 THEN [st |-> st, ret |-> -1]
     ELSE IF r.err THEN [st |-> r.st, ret |-> -1]
     ELSE [st |-> [r.st EXCEPT !.image.inodes[inode_num] = inode2],
           ret |-> Len(buffer)]

\* buffer is the caller's bytes (size = Len(buffer)); u as in read_file: with
\* a failed stream every write is refused by the stream, nothing changes and
\* the call ends in -1 or in 0.
write_file(st, inode_num, buffer, offset, u) ==
  LET inode == st.image.inodes[inode_num]
      r == write_loop(st, inode, buffer, 0, offset)
      inode2 == IF offset + r.bytes_written > r.inode.size
                THEN [r.inode EXCEPT !.size = offset + r.bytes_written]
                ELSE r.inode
  IN IF ~st.mounted \/ inode_num < 0 \/ inode_num >= st.sb.total_inodes
        \/ Len(buffer) = 0
       THEN [st |-> st, ret |-> -1]
     ELSE IF st.fail THEN [st |-> st, ret |-> u]
     ELSE IF inode.used = 0 \/ inode.type # 1 THEN [st |-> st, ret |-> -1]
     ELSE IF r.err THEN [st |-> r.st, ret |-> -1]
     ELSE [st |-> [r.st EXCEPT !.image.inodes[inode_num] = inode2],
           ret |-> r.bytes_written]

\* The block release of delete_file stopping after blocks[0].
free_blocks_from_first(st, file_inode, i) ==
  IF file_inode.blocks[0] # 0
    THEN set_block_bitmap(st, file_inode.blocks[0], FALSE).st
  ELSE st

\* Frees the blocks of file_inode in index order.
RECURSIVE free_blocks_from(_, _, _)
free_blocks_from(st, file_inode, i) ==
  IF i >= NDIRECT THEN st
  ELSE IF file_inode.blocks[i] # 0
    THEN free_blocks_from(set_block_bitmap(st, file_inode.blocks[i], FALSE).st,
                          file_inode, i + 1)
  ELSE free_blocks_from(st, file_inode, i + 1)

\* delete_file that answers success for a name the directory does not hold.
delete_file_idempotent(st, name) ==
  LET root_inode == st.image.inodes[0]
      hits == { i \in 1..(DIR_ENTRIES - 1) :
                  st.image.dir[i].valid # 0 /\ st.image.dir[i].name = name }
      target_entry_idx == CHOOSE i \in hits : \A j \in hits : i <= j
      target_inode == st.image.dir[target_entry_idx].inode_num
      file_inode == st.image.inodes[target_inode]
      s1 == free_blocks_from(st, file_inode, 0)
      s2 == [s1 EXCEPT !.image.inodes[target_inode] =
               [file_inode EXCEPT !.used = 0,
                                  !.blocks = [k \in 0..(NDIRECT - 1) |-> 0]]]
      s3 == set_inode_bitmap(s2, target_inode, FALSE).st
      s4 == [s3 EXCEPT !.image.dir[target_entry_idx].valid = 0]
  IN IF ~st.mounted THEN [st |-> st, ret |-> FALSE]
     ELSE IF st.fail THEN [st |-> st, ret |-> FALSE]
     ELSE IF root_inode.type # 2 THEN [st |-> st, ret |-> FALSE]
     ELSE IF ~BlockIoOk(st, root_inode.blocks[0]) THEN [st |-> st, ret |-> FALSE]
     ELSE IF hits = {} THEN [st |-> st, ret |-> TRUE]
     ELSE IF file_inode.used = 0 \/ file_inode.type # 1
       THEN [st |-> st, ret |-> FALSE]
     ELSE [st |-> s4, ret |-> TRUE]

\* delete_file that leaves the directory entry valid.
delete_file_keep_entry(st, name) ==
  LET root_inode == st.image.inodes[0]
      hits == { i \in 1..(DIR_ENTRIES - 1) :
                  st.image.dir[i].valid # 0 /\ st.image.dir[i].name = name }
      target_entry_idx == CHOOSE i \in hits : \A j \in hits : i <= j
      target_inode == st.image.dir[target_entry_idx].inode_num
      file_inode == st.image.inodes[target_inode]
      s1 == free_blocks_from(st, file_inode, 0)
      s2 == [s1 EXCEPT !.image.inodes[target_inode] =
               [file_inode EXCEPT !.used = 0,
                                  !.blocks = [k \in 0..(NDIRECT - 1) |-> 0]]]
      s3 == set_inode_bitmap(s2, target_inode, FALSE).st
      s4 == s3
  IN IF ~st.mounted THEN [st |-> st, ret |-> FALSE]
     ELSE IF st.fail THEN [st |-> st, ret |-> FALSE]
     ELSE IF root_inode.type # 2 THEN [st |-> st, ret |-> FALSE]
     ELSE IF ~BlockIoOk(st, root_inode.blocks[0]) THEN [st |-> st, ret |-> FALSE]
     ELSE IF hits = {} THEN [st |-> st, ret |-> FALSE]
     ELSE IF file_inode.used = 0 \/ file_inode.type # 1
       THEN [st |-> st, ret |-> FALSE]
     ELSE [st |-> s4, ret |-> TRUE]

delete_file(st, name) ==
  LET root_inode == st.image.inodes[0]
      hits == { i \in 1..(DIR_ENTRIES - 1) :
                  st.image.dir[i].valid # 0 /\ st.image.dir[i].name = name }
      target_entry_idx == CHOOSE i \in hits : \A j \in hits : i <= j
      target_inode == st.image.dir[target_entry_idx].inode_num
      file_inode == st.image.inodes[target_inode]
      s1 == free_blocks_from(st, file_inode, 0)
      s2 == [s1 EXCEPT !.image.inodes[target_inode] =
               [file_inode EXCEPT !.used = 0,
                                  !.blocks = [k \in 0..(NDIRECT - 1) |-> 0]]]
      s3 == set_inode_bitmap(s2, target_inode, FALSE).st
      s4 == [s3 EXCEPT !.image.dir[target_entry_idx].valid = 0]
  IN IF ~st.mounted THEN [st |-> st, ret |-> FALSE]
     ELSE IF st.fail THEN [st |-> st, ret |-> FALSE]
     ELSE IF root_inode.type # 2 THEN [st |-> st, ret |-> FALSE]
     ELSE IF ~BlockIoOk(st, root_inode.blocks[0]) THEN [st |-> st, ret |-> FALSE]
     ELSE IF hits = {} THEN [st |-> st, ret |-> FALSE]
     ELSE IF file_inode.used = 0 \/ file_inode.type # 1
       THEN [st |-> st, ret |-> FALSE]
     ELSE [st |-> s4, ret |-> TRUE]

get_file_size(st, inode_num) ==
  IF ~st.mounted \/ inode_num < 0 \/ inode_num >= st.sb.total_inodes THEN -1
  ELSE IF st.fail \/ st.image.inodes[inode_num].used = 0 THEN -1
  ELSE st.image.inodes[inode_num].size

\* is_inode_used clears the stream's error state before it reads.
is_inode_used(st, inode_num) ==
  IF inode_num >= st.sb.total_inodes THEN [st |-> st, ret |-> FALSE]
  ELSE IF ~st.mounted THEN [st |-> st, ret |-> FALSE]
  ELSE [st |-> [st EXCEPT !.fail = FALSE],
        ret |-> st.image.inodes[inode_num].used # 0]

\* ---- command handlers ----
\* What a handler leaves in task.result, by case.
CopyErrors == {"copy: missing argument", "copy: source missing",
               "copy: destination not created", "copy: read failed",
               "copy: write failed"}

\* The COPY handler whose rollback keeps the destination it created.
copy_handler_no_rollback(st, args) ==
  LET src == args[1]
      dest == args[2]
      src_inode == open_file(st, src)
      c == create_file(st, dest)
      dest_inode == c.ret
      file_size == get_file_size(c.st, src_inode)
      r == read_file(c.st, src_inode, file_size, 0, -1)
      bytes_read == r.ret
      w == write_file(c.st, dest_inode, r.data, 0, -1)
      bytes_written == w.ret
  IN IF Len(args) < 2 THEN [st |-> st, result |-> "copy: missing argument"]
     ELSE IF src_inode = -1 THEN [st |-> st, result |-> "copy: source missing"]
     ELSE IF dest_inode = -1
       THEN [st |-> c.st, result |-> "copy: destination not created"]
     ELSE IF file_size <= 0 THEN [st |-> c.st, result |-> "copy: source empty"]
     ELSE IF bytes_read < 0 THEN [st |-> c.st, result |-> "copy: read failed"]
     ELSE IF bytes_written # bytes_read
       THEN [st |-> w.st, result |-> "copy: write failed"]
     ELSE [st |-> w.st, result |-> "copy: ok"]

\* COPY: open the source, create the destination, read the whole source and
\* write what was read; a failed read or a short write deletes the
\* destination again.
copy_handler(st, args) ==
  LET src == args[1]
      dest == args[2]
      src_inode == open_file(st, src)
      c == create_file(st, dest)
      dest_inode == c.ret
      file_size == get_file_size(c.st, src_inode)
      r == read_file(c.st, src_inode, file_size, 0, -1)
      bytes_read == r.ret
      w == write_file(c.st, dest_inode, r.data, 0, -1)
      bytes_written == w.ret
  IN IF Len(args) < 2 THEN [st |-> st, result |-> "copy: missing argument"]
     ELSE IF src_inode = -1 THEN [st |-> st, result |-> "copy: source missing"]
     ELSE IF dest_inode = -1
       THEN [st |-> c.st, result |-> "copy: destination not created"]
     ELSE IF file_size <= 0 THEN [st |-> c.st, result |-> "copy: source empty"]
     ELSE IF bytes_read < 0
       THEN [st |-> delete_file(c.st, dest).st, result |-> "copy: read failed"]
     ELSE IF bytes_written # bytes_read
       THEN [st |-> delete_file(w.st, dest).st, result |-> "copy: write failed"]
     ELSE [st |-> w.st, result |-> "copy: ok"]

\* The two characters the WRITE handler treats specially. Contents are byte
\* sequences; these two lie outside the bytes the write actions use.
Space == MaxByte + 1
Quote == MaxByte + 2

\* The tokens args[i..] joined with single spaces.
RECURSIVE JoinArgs(_, _)
JoinArgs(args, i) ==
  IF i > Len(args) THEN << >>
  ELSE IF i = Len(args) THEN args[i]
  ELSE args[i] \o <<Space>> \o JoinArgs(args, i + 1)

\* The content without the pair of quotes that surrounds it, if one does.
StripQuotes(content) ==
  IF Len(content) >= 2 /\ content[1] = Quote /\ content[Len(content)] = Quote
  THEN SubSeq(content, 2, Len(content) - 1)
  ELSE content

WriteErrors == {"write: missing argument", "write: not created",
                "write: failed"}

\* The WRITE handler deleting the file it finds before it writes.
write_handler_recreate(st, args) ==
  LET filename == args[1]
      content == StripQuotes(JoinArgs(args, 2))
      d == delete_file(st, filename)
      c == create_file(d.st, filename)
      w == write_file(c.st, c.ret, content, 0, -1)
  IN IF Len(args) < 2 THEN [st |-> st, result |-> "write: missing argument"]
     ELSE IF c.ret = -1 THEN [st |-> c.st, result |-> "write: not created"]
     ELSE IF w.ret # Len(content) THEN [st |-> w.st, result |-> "write: failed"]
     ELSE [st |-> w.st, result |-> "write: ok"]

\* The WRITE handler: args[1] is the file name, the rest the content's
\* tokens.
write_handler(st, args) ==
  LET filename == args[1]
      content == StripQuotes(JoinArgs(args, 2))
      found == open_file(st, filename)
      c == create_file(st, filename)
      inode == IF found = -1 THEN c.ret ELSE found
      s1 == IF found = -1 THEN c.st ELSE st
      w == write_file(s1, inode, content, 0, -1)
      bytes_written == w.ret
  IN IF Len(args) < 2 THEN [st |-> st, result |-> "write: missing argument"]
     ELSE IF inode = -1 THEN [st |-> c.st, result |-> "write: not created"]
     ELSE IF bytes_written # Len(content)
       THEN [st |-> w.st, result |-> "write: failed"]
     ELSE [st |-> w.st, result |-> "write: ok"]

\* ---- command dispatch: threads, tasks, the idle pool ----
NumWorkers == 2
MaxTasks == 3

Workers == 1..NumWorkers
Producer == NumWorkers + 1

\* A lock that is granted whoever holds the mutex.
try_lock_any(mutex, t) == TRUE

\* A mutex is the set of threads holding it: empty when free.
try_lock(mutex, t) == mutex = {}

NoTask == [id |-> 0, type |-> "NONE", args |-> << >>, result |-> ""]

\* A worker: where it stands in its loop, the task it holds, and the
\* filesystem state its handler's first call saw (read by the properties).
NoSnapshot == [mounted |-> FALSE]
IdleWorker == [pc |-> "loop", task |-> NoTask, seen |-> NoSnapshot]

\* No task has finished.
NotFinished == "not finished"
NoResults == [id \in 1..MaxTasks |-> NotFinished]

\* The two worker loops of the repository: ThreadPool::worker and
\* consumer_thread over get_task.
Builds == {"ThreadPool", "consumer_thread"}

PoolIdle ==
  /\ task_queue = << >>
  /\ queue_mutex = {}
  /\ cv_waiters = {}
  /\ running = TRUE
  /\ disk_mutex = {}
  /\ worker = [w \in Workers |-> IdleWorker]
  /\ producer = [pc |-> "input", count |-> 0, admin |-> 0, op |-> "none"]
  /\ dequeued = << >>
  /\ build = "ThreadPool"
  /\ active_tasks = 0
  /\ executed = << >>
  /\ results = NoResults

\* ---- the state machine ----
\* open_file, read_file, list_files and get_file_size change no state: their
\* calls are stuttering steps, and the operators above give their results.
Init ==
  /\ image \in {ZeroImage(FALSE), ZeroImage(TRUE)}
  /\ super_block = ZeroSuperBlock
  /\ is_mounted = FALSE
  /\ disk_file_fail = FALSE
  /\ PoolIdle
  /\ pos_calc = PosIdle

Format ==
  LET st == format(St).st
  IN /\ image' = st.image
     /\ super_block' = st.sb
     /\ is_mounted' = st.mounted
     /\ disk_file_fail' = st.fail
     /\ UNCHANGED <<pool_vars, layout_vars>>

Mount ==
  LET st == mount(St).st
  IN /\ image' = st.image
     /\ super_block' = st.sb
     /\ is_mounted' = st.mounted
     /\ disk_file_fail' = st.fail
     /\ UNCHANGED <<pool_vars, layout_vars>>

Unmount ==
  LET st == unmount(St).st
  IN /\ image' = st.image
     /\ super_block' = st.sb
     /\ is_mounted' = st.mounted
     /\ disk_file_fail' = st.fail
     /\ UNCHANGED <<pool_vars, layout_vars>>

IsInodeUsed ==
  \E inode_num \in 0..MAX_INODES :
    LET st == is_inode_used(St, inode_num).st
    IN /\ image' = st.image
       /\ super_block' = st.sb
       /\ is_mounted' = st.mounted
       /\ disk_file_fail' = st.fail
       /\ UNCHANGED <<pool_vars, layout_vars>>

CreateFile == \E name \in Names :
  LET st == create_file(St, name).st
  IN /\ image' = st.image
     /\ super_block' = st.sb
     /\ is_mounted' = st.mounted
     /\ disk_file_fail' = st.fail
     /\ UNCHANGED <<pool_vars, layout_vars>>

DeleteFile == \E name \in Names :
  LET st == delete_file(St, name).st
  IN /\ image' = st.image
     /\ super_block' = st.sb
     /\ is_mounted' = st.mounted
     /\ disk_file_fail' = st.fail
     /\ UNCHANGED <<pool_vars, layout_vars>>

WriteFile ==
  \E inode_num \in InodeArgs, sh \in WriteShapes,
     u \in (IF disk_file_fail THEN {-1, 0} ELSE {-1}) :
    LET st == write_file(St, inode_num, Ones(sh[1]), sh[2], u).st
    IN /\ image' = st.image
       /\ super_block' = st.sb
       /\ is_mounted' = st.mounted
       /\ disk_file_fail' = st.fail
       /\ UNCHANGED <<pool_vars, layout_vars>>

Next ==
  \/ Format
  \/ Mount
  \/ Unmount
  \/ IsInodeUsed
  \/ CreateFile
  \/ DeleteFile
  \/ WriteFile

\* Every file name, few writes.
Spec == Init /\ [][Next]_vars

DataCreateFile == \E name \in DataNames :
  LET st == create_file(St, name).st
  IN /\ image' = st.image
     /\ super_block' = st.sb
     /\ is_mounted' = st.mounted
     /\ disk_file_fail' = st.fail
     /\ UNCHANGED <<pool_vars, layout_vars>>

DataDeleteFile == \E name \in DataNames :
  LET st == delete_file(St, name).st
  IN /\ image' = st.image
     /\ super_block' = st.sb
     /\ is_mounted' = st.mounted
     /\ disk_file_fail' = st.fail
     /\ UNCHANGED <<pool_vars, layout_vars>>

DataWriteFile ==
  \E inode_num \in InodeArgs, v \in 1..MaxByte, sh \in DataWriteShapes,
     u \in (IF disk_file_fail THEN {-1, 0} ELSE {-1}) :
    LET st == write_file(St, inode_num, Buf(v, sh[1]), sh[2], u).st
    IN /\ image' = st.image
       /\ super_block' = st.sb
       /\ is_mounted' = st.mounted
       /\ disk_file_fail' = st.fail
       /\ UNCHANGED <<pool_vars, layout_vars>>

NextData ==
  \/ Format
  \/ Mount
  \/ Unmount
  \/ IsInodeUsed
  \/ DataCreateFile
  \/ DataDeleteFile
  \/ DataWriteFile

\* One file name, writes of every shape, two byte patterns.
SpecData == Init /\ [][NextData]_vars

\* ---- the command dispatch ----
\* One producer reads commands and enqueues tasks; NumWorkers workers take
\* them from the queue and run their handlers on the filesystem. The worker
\* loop is ThreadPool::worker or, in the other build, consumer_thread over
\* get_task; the producer's administrative commands are those of the
\* interactive main loop.
MaxAdmin == 1

TaskKinds ==
  { [type |-> "TOUCH", args |-> <<"a">>],
    [type |-> "RM", args |-> <<"a">>],
    [type |-> "EXIT", args |-> << >>] }

AdminOps == {"format", "mount", "umount", "create"}

\* The producer's administrative commands, run on its own thread.
admin(st, op) ==
  CASE op = "format" -> format(st).st
    [] op = "mount" -> mount(st).st
    [] op = "umount" -> unmount(st).st
    [] op = "create" -> create_file(st, "a").st
    [] OTHER -> st

\* The front of the queue leaves it: front() then pop().
dequeue_keep(q) == [task |-> Head(q), rest |-> q]

dequeue(q) == [task |-> Head(q), rest |-> Tail(q)]

\* The program after main has formatted and mounted the image and started
\* the workers.
InitPool ==
  LET st0 == [ image |-> ZeroImage(FALSE), sb |-> ZeroSuperBlock,
               mounted |-> FALSE, fail |-> FALSE ]
      st == mount(format(st0).st).st
  IN /\ image = st.image
     /\ super_block = st.sb
     /\ is_mounted = st.mounted
     /\ disk_file_fail = st.fail
     /\ task_queue = << >>
     /\ queue_mutex = {}
     /\ cv_waiters = {}
     /\ running = TRUE
     /\ disk_mutex = {}
     /\ worker = [w \in Workers |-> IdleWorker]
     /\ producer = [pc |-> "input", count |-> 0, admin |-> 0, op |-> "none"]
     /\ dequeued = << >>
     /\ build \in Builds
     /\ active_tasks = 0
     /\ executed = << >>
     /\ results = NoResults
     /\ pos_calc = PosIdle

\* while (running)
WorkerLoop(w) ==
  /\ worker[w].pc = "loop"
  /\ worker' = [worker EXCEPT ![w].pc = IF running THEN "lock_queue" ELSE "done"]
  /\ UNCHANGED <<task_queue, queue_mutex, cv_waiters, running, disk_mutex,
                 producer, dequeued, build>>
  /\ UNCHANGED <<fs_vars, layout_vars, active_tasks, executed, results>>

\* std::unique_lock<std::mutex> lock(queue_mutex)
WorkerLockQueue(w) ==
  /\ worker[w].pc = "lock_queue"
  /\ try_lock(queue_mutex, w)
  /\ queue_mutex' = queue_mutex \cup {w}
  /\ worker' = [worker EXCEPT ![w].pc = "wait"]
  /\ UNCHANGED <<task_queue, cv_waiters, running, disk_mutex, producer,
                 dequeued, build>>
  /\ UNCHANGED <<fs_vars, layout_vars, active_tasks, executed, results>>

\* cv.wait(lock, pred): the predicate is evaluated with the mutex held ...
WorkerWait(w) ==
  /\ worker[w].pc = "wait"
  /\ worker' = [worker EXCEPT ![w].pc =
                  IF task_queue # << >> \/ ~running THEN "check" ELSE "block"]
  /\ UNCHANGED <<task_queue, queue_mutex, cv_waiters, running, disk_mutex,
                 producer, dequeued, build>>
  /\ UNCHANGED <<fs_vars, layout_vars, active_tasks, executed, results>>

\* ... and when it is false the thread releases the mutex and blocks, in one
\* step with respect to the threads that notify.
WorkerBlock(w) ==
  /\ worker[w].pc = "block"
  /\ queue_mutex' = queue_mutex \ {w}
  /\ cv_waiters' = cv_waiters \cup {w}
  /\ worker' = [worker EXCEPT ![w].pc = "blocked"]
  /\ UNCHANGED <<task_queue, running, disk_mutex, producer, dequeued, build>>
  /\ UNCHANGED <<fs_vars, layout_vars, active_tasks, executed, results>>

\* A wait without its predicate: the woken thread takes the mutex and goes
\* on to the queue.
WorkerWake_no_recheck(w) ==
  /\ worker[w].pc = "blocked"
  /\ w \notin cv_waiters
  /\ try_lock(queue_mutex, w)
  /\ queue_mutex' = queue_mutex \cup {w}
  /\ worker' = [worker EXCEPT ![w].pc = "check"]
  /\ UNCHANGED <<task_queue, cv_waiters, running, disk_mutex, producer,
                 dequeued, build>>
  /\ UNCHANGED <<fs_vars, layout_vars, active_tasks, executed, results>>

\* A notified thread takes the mutex again and evaluates the predicate again.
WorkerWake(w) ==
  /\ worker[w].pc = "blocked"
  /\ w \notin cv_waiters
  /\ try_lock(queue_mutex, w)
  /\ queue_mutex' = queue_mutex \cup {w}
  /\ worker' = [worker EXCEPT ![w].pc = "wait"]
  /\ UNCHANGED <<task_queue, cv_waiters, running, disk_mutex, producer,
                 dequeued, build>>
  /\ UNCHANGED <<fs_vars, layout_vars, active_tasks, executed, results>>

\* A wait may end without a notification.
SpuriousWake(w) ==
  /\ w \in cv_waiters
  /\ cv_waiters' = cv_waiters \ {w}
  /\ UNCHANGED <<task_queue, queue_mutex, running, disk_mutex, worker,
                 producer, dequeued, build>>
  /\ UNCHANGED <<fs_vars, layout_vars, active_tasks, executed, results>>

\* After the wait, still under the mutex: leave on shutdown with an empty
\* queue; on an empty queue go round again (ThreadPool::worker) or leave
\* (get_task returns false and consumer_thread breaks); otherwise take the
\* front task.
WorkerTake(w) ==
  /\ worker[w].pc = "check"
  /\ queue_mutex' = queue_mutex \ {w}
  /\ IF task_queue = << >>
       THEN /\ worker' = [worker EXCEPT ![w].pc =
                            IF ~running THEN "done"
                            ELSE IF build = "consumer_thread" THEN "done"
                            ELSE "loop"]
            /\ UNCHANGED <<task_queue, dequeued, active_tasks>>
       ELSE /\ worker' = [worker EXCEPT ![w].pc = "lock_disk",
                                        ![w].task = dequeue(task_queue).task]
            /\ task_queue' = dequeue(task_queue).rest
            /\ dequeued' = Append(dequeued,
                                  [id |-> dequeue(task_queue).task.id, by |-> w])
            /\ active_tasks' = IF build = "ThreadPool" THEN active_tasks + 1
                               ELSE active_tasks
  /\ UNCHANGED <<cv_waiters, running, disk_mutex, producer, build>>
  /\ UNCHANGED <<fs_vars, layout_vars, executed, results>>

\* A handler that starts without waiting for the filesystem mutex.
WorkerLockDisk_no_wait(w) ==
  /\ worker[w].pc = "lock_disk"
  /\ disk_mutex' = disk_mutex \cup {w}
  /\ worker' = [worker EXCEPT ![w].pc = "execute"]
  /\ executed' = Append(executed, worker[w].task)
  /\ UNCHANGED <<task_queue, queue_mutex, cv_waiters, running, producer,
                 dequeued, build>>
  /\ UNCHANGED <<fs_vars, layout_vars, active_tasks, results>>

\* std::lock_guard<std::mutex> disk_lock(disk_mutex)
WorkerLockDisk(w) ==
  /\ worker[w].pc = "lock_disk"
  /\ try_lock(disk_mutex, w)
  /\ disk_mutex' = disk_mutex \cup {w}
  /\ worker' = [worker EXCEPT ![w].pc = "execute"]
  /\ executed' = Append(executed, worker[w].task)
  /\ UNCHANGED <<task_queue, queue_mutex, cv_waiters, running, producer,
                 dequeued, build>>
  /\ UNCHANGED <<fs_vars, layout_vars, active_tasks, results>>

\* A TOUCH that gives the filesystem mutex up between its look-up and its
\* create_file, and takes it again for the latter.
WorkerTouchOpen_unlocked(w) ==
  /\ worker[w].pc = "execute"
  /\ worker[w].task.type = "TOUCH"
  /\ disk_mutex' = IF open_file(St, worker[w].task.args[1]) # -1
                   THEN disk_mutex ELSE {}
  /\ worker' = [worker EXCEPT
                  ![w].pc = IF open_file(St, worker[w].task.args[1]) # -1
                            THEN "unlock_disk" ELSE "touch_create",
                  ![w].task.result =
                            IF open_file(St, worker[w].task.args[1]) # -1
                            THEN "touch: exists" ELSE "",
                  ![w].seen = St]
  /\ UNCHANGED <<task_queue, queue_mutex, cv_waiters, running, producer,
                 dequeued, build>>
  /\ UNCHANGED <<fs_vars, layout_vars, active_tasks, executed, results>>

\* execute_task, one filesystem call a step. TOUCH first looks the name up:
\* an existing file is left alone ...
WorkerTouchOpen(w) ==
  /\ worker[w].pc = "execute"
  /\ worker[w].task.type = "TOUCH"
  /\ worker' = [worker EXCEPT
                  ![w].pc = IF open_file(St, worker[w].task.args[1]) # -1
                            THEN "unlock_disk" ELSE "touch_create",
                  ![w].task.result =
                            IF open_file(St, worker[w].task.args[1]) # -1
                            THEN "touch: exists" ELSE "",
                  ![w].seen = St]
  /\ UNCHANGED <<task_queue, queue_mutex, cv_waiters, running, disk_mutex,
                 producer, dequeued, build>>
  /\ UNCHANGED <<fs_vars, layout_vars, active_tasks, executed, results>>

\* ... and a missing one is created empty.
WorkerTouchCreate(w) ==
  /\ worker[w].pc = "touch_create"
  /\ LET st == create_file(St, worker[w].task.args[1]).st
     IN /\ image' = st.image
        /\ super_block' = st.sb
        /\ is_mounted' = st.mounted
        /\ disk_file_fail' = st.fail
  /\ worker' = [worker EXCEPT
                  ![w].pc = "unlock_disk",
                  ![w].task.result =
                     IF create_file(St, worker[w].task.args[1]).ret = -1
                     THEN "touch: not created" ELSE "touch: created",
                  ![w].seen = NoSnapshot]
  /\ UNCHANGED <<task_queue, queue_mutex, cv_waiters, running, disk_mutex,
                 producer, dequeued, build>>
  /\ UNCHANGED <<layout_vars, active_tasks, executed, results>>

\* RM deletes the file.
WorkerRm(w) ==
  /\ worker[w].pc = "execute"
  /\ worker[w].task.type = "RM"
  /\ LET st == delete_file(St, worker[w].task.args[1]).st
     IN /\ image' = st.image
        /\ super_block' = st.sb
        /\ is_mounted' = st.mounted
        /\ disk_file_fail' = st.fail
  /\ worker' = [worker EXCEPT
                  ![w].pc = "unlock_disk",
                  ![w].task.result =
                     IF delete_file(St, worker[w].task.args[1]).ret
                     THEN "rm: ok" ELSE "rm: failed"]
  /\ UNCHANGED <<task_queue, queue_mutex, cv_waiters, running, disk_mutex,
                 producer, dequeued, build>>
  /\ UNCHANGED <<layout_vars, active_tasks, executed, results>>

\* EXIT only sets its result.
WorkerExit(w) ==
  /\ worker[w].pc = "execute"
  /\ worker[w].task.type = "EXIT"
  /\ worker' = [worker EXCEPT ![w].pc = "unlock_disk",
                              ![w].task.result = "exit"]
  /\ UNCHANGED <<task_queue, queue_mutex, cv_waiters, running, disk_mutex,
                 producer, dequeued, build>>
  /\ UNCHANGED <<fs_vars, layout_vars, active_tasks, executed, results>>

\* What the unwinding of an exception does to the mutex a lock_guard holds,
\* were the guard not to release it.
unwind_keep(mutex, t) == mutex

\* The lock_guard's destructor runs when an exception leaves its scope.
unwind(mutex, t) == mutex \ {t}

ExecError == "error: task execution"

\* A handler may throw at any of its calls (an allocation that fails): the
\* exception leaves the try block, the guard releases the filesystem mutex
\* and the catch clause sets the result.
WorkerThrow(w) ==
  /\ worker[w].pc \in {"execute", "touch_create"}
  /\ disk_mutex' = unwind(disk_mutex, w)
  /\ worker' = [worker EXCEPT ![w].pc = "finish",
                              ![w].task.result = ExecError,
                              ![w].seen = NoSnapshot]
  /\ UNCHANGED <<task_queue, queue_mutex, cv_waiters, running, producer,
                 dequeued, build>>
  /\ UNCHANGED <<fs_vars, layout_vars, active_tasks, executed, results>>

\* The lock_guard's scope ends.
WorkerUnlockDisk(w) ==
  /\ worker[w].pc = "unlock_disk"
  /\ disk_mutex' = disk_mutex \ {w}
  /\ worker' = [worker EXCEPT ![w].pc = "finish"]
  /\ UNCHANGED <<task_queue, queue_mutex, cv_waiters, running, producer,
                 dequeued, build>>
  /\ UNCHANGED <<fs_vars, layout_vars, active_tasks, executed, results>>

\* After the handler: EXIT clears the running flag, without the queue mutex;
\* consumer_thread then goes on to notify_all, ThreadPool::worker does not.
\* In the interactive main the flag is the producer's to clear.
WorkerFinish(w) ==
  /\ worker[w].pc = "finish"
  /\ running' = IF worker[w].task.type = "EXIT" /\ build # "main"
                THEN FALSE ELSE running
  /\ worker' = [worker EXCEPT
                  ![w].pc = IF worker[w].task.type = "EXIT"
                               /\ build = "consumer_thread"
                            THEN "notify" ELSE "loop",
                  ![w].task = NoTask]
  /\ active_tasks' = IF build = "ThreadPool" THEN active_tasks - 1
                     ELSE active_tasks
  /\ results' = [results EXCEPT ![worker[w].task.id] = worker[w].task.result]
  /\ UNCHANGED <<task_queue, queue_mutex, cv_waiters, disk_mutex, producer,
                 dequeued, build>>
  /\ UNCHANGED <<fs_vars, layout_vars, executed>>

\* cv.notify_all() wakes the threads that are blocked at that moment.
WorkerNotifyAll(w) ==
  /\ worker[w].pc = "notify"
  /\ cv_waiters' = {}
  /\ worker' = [worker EXCEPT ![w].pc = "loop"]
  /\ UNCHANGED <<task_queue, queue_mutex, running, disk_mutex, producer,
                 dequeued, build>>
  /\ UNCHANGED <<fs_vars, layout_vars, active_tasks, executed, results>>

\* add_task: push and notify_one under the queue mutex. The producer stops
\* reading commands after it has enqueued EXIT.
AddTask ==
  /\ producer.pc = "input"
  /\ producer.count < MaxTasks
  /\ try_lock(queue_mutex, Producer)
  /\ \E kind \in TaskKinds :
       /\ task_queue' = Append(task_queue,
                               [id |-> producer.count + 1, type |-> kind.type,
                                args |-> kind.args, result |-> ""])
       /\ producer' = [producer EXCEPT
                         !.count = producer.count + 1,
                         !.pc = IF kind.type = "EXIT" THEN "join" ELSE "input"]
  /\ \/ cv_waiters = {} /\ cv_waiters' = cv_waiters
     \/ \E x \in cv_waiters : cv_waiters' = cv_waiters \ {x}
  /\ UNCHANGED <<queue_mutex, running, disk_mutex, worker, dequeued, build>>
  /\ UNCHANGED <<fs_vars, layout_vars, active_tasks, executed, results>>

\* An administrative command: the producer takes the filesystem mutex ...
AdminLock ==
  /\ producer.pc = "input"
  /\ producer.admin < MaxAdmin
  /\ try_lock(disk_mutex, Producer)
  /\ disk_mutex' = disk_mutex \cup {Producer}
  /\ \E op \in AdminOps :
       producer' = [producer EXCEPT !.pc = "admin", !.op = op,
                                    !.admin = producer.admin + 1]
  /\ UNCHANGED <<task_queue, queue_mutex, cv_waiters, running, worker,
                 dequeued, build>>
  /\ UNCHANGED <<fs_vars, layout_vars, active_tasks, executed, results>>

\* ... runs the command ...
AdminRun ==
  /\ producer.pc = "admin"
  /\ LET st == admin(St, producer.op)
     IN /\ image' = st.image
        /\ super_block' = st.sb
        /\ is_mounted' = st.mounted
        /\ disk_file_fail' = st.fail
  /\ producer' = [producer EXCEPT !.pc = "admin_unlock"]
  /\ UNCHANGED <<task_queue, queue_mutex, cv_waiters, running, disk_mutex,
                 worker, dequeued, build>>
  /\ UNCHANGED <<layout_vars, active_tasks, executed, results>>

\* ... and releases the mutex at the end of the block.
AdminUnlock ==
  /\ producer.pc = "admin_unlock"
  /\ disk_mutex' = disk_mutex \ {Producer}
  /\ producer' = [producer EXCEPT !.pc = "input", !.op = "none"]
  /\ UNCHANGED <<task_queue, queue_mutex, cv_waiters, running, worker,
                 dequeued, build>>
  /\ UNCHANGED <<fs_vars, layout_vars, active_tasks, executed, results>>

\* The steps a worker takes when it is scheduled.
WorkerStep(w) ==
  \/ WorkerLoop(w)
  \/ WorkerLockQueue(w)
  \/ WorkerWait(w)
  \/ WorkerBlock(w)
  \/ WorkerWake(w)
  \/ WorkerTake(w)
  \/ WorkerLockDisk(w)
  \/ WorkerTouchOpen(w)
  \/ WorkerTouchCreate(w)
  \/ WorkerRm(w)
  \/ WorkerExit(w)
  \/ WorkerUnlockDisk(w)
  \/ WorkerFinish(w)
  \/ WorkerNotifyAll(w)

NextPool ==
  \/ \E w \in Workers : WorkerLoop(w)
  \/ \E w \in Workers : WorkerLockQueue(w)
  \/ \E w \in Workers : WorkerWait(w)
  \/ \E w \in Workers : WorkerBlock(w)
  \/ \E w \in Workers : WorkerWake(w)
  \/ \E w \in Workers : SpuriousWake(w)
  \/ \E w \in Workers : WorkerTake(w)
  \/ \E w \in Workers : WorkerLockDisk(w)
  \/ \E w \in Workers : WorkerTouchOpen(w)
  \/ \E w \in Workers : WorkerTouchCreate(w)
  \/ \E w \in Workers : WorkerRm(w)
  \/ \E w \in Workers : WorkerExit(w)
  \/ \E w \in Workers : WorkerThrow(w)
  \/ \E w \in Workers : WorkerUnlockDisk(w)
  \/ \E w \in Workers : WorkerFinish(w)
  \/ \E w \in Workers : WorkerNotifyAll(w)
  \/ AddTask
  \/ AdminLock
  \/ AdminRun
  \/ AdminUnlock

SpecPool == InitPool /\ [][NextPool]_vars

\* The shutdown runs: the same workers, a producer that only enqueues, and
\* commands that are either a file creation or EXIT.
ShutdownKinds ==
  { [type |-> "TOUCH", args |-> <<"a">>],
    [type |-> "EXIT", args |-> << >>] }

AddShutdownTask ==
  /\ producer.pc = "input"
  /\ producer.count < MaxTasks
  /\ try_lock(queue_mutex, Producer)
  /\ \E kind \in ShutdownKinds :
       /\ task_queue' = Append(task_queue,
                               [id |-> producer.count + 1, type |-> kind.type,
                                args |-> kind.args, result |-> ""])
       /\ producer' = [producer EXCEPT
                         !.count = producer.count + 1,
                         !.pc = IF kind.type = "EXIT" THEN "join" ELSE "input"]
  /\ \/ cv_waiters = {} /\ cv_waiters' = cv_waiters
     \/ \E x \in cv_waiters : cv_waiters' = cv_waiters \ {x}
  /\ UNCHANGED <<queue_mutex, running, disk_mutex, worker, dequeued, build>>
  /\ UNCHANGED <<fs_vars, layout_vars, active_tasks, executed, results>>

NextShutdown ==
  \/ \E w \in Workers : WorkerLoop(w)
  \/ \E w \in Workers : WorkerLockQueue(w)
  \/ \E w \in Workers : WorkerWait(w)
  \/ \E w \in Workers : WorkerBlock(w)
  \/ \E w \in Workers : WorkerWake(w)
  \/ \E w \in Workers : SpuriousWake(w)
  \/ \E w \in Workers : WorkerTake(w)
  \/ \E w \in Workers : WorkerLockDisk(w)
  \/ \E w \in Workers : WorkerTouchOpen(w)
  \/ \E w \in Workers : WorkerTouchCreate(w)
  \/ \E w \in Workers : WorkerExit(w)
  \/ \E w \in Workers : WorkerUnlockDisk(w)
  \/ \E w \in Workers : WorkerFinish(w)
  \/ \E w \in Workers : WorkerNotifyAll(w)
  \/ AddShutdownTask

\* Fair scheduling: a worker that can take a step eventually takes one. The
\* producer and the spurious wake-ups are under no obligation.
SpecShutdown ==
  InitPool /\ [][NextShutdown]_vars /\ \A w \in Workers : WF_vars(WorkerStep(w))

\* The interactive main: consumer_thread leaves EXIT to the producer, which
\* pushes each task under the queue mutex, notifies one waiter after the
\* unlock and, once it has pushed EXIT, clears the running flag, notifies all
\* and joins.
InitDrain ==
  LET st0 == [ image |-> ZeroImage(FALSE), sb |-> ZeroSuperBlock,
               mounted |-> FALSE, fail |-> FALSE ]
      st == mount(format(st0).st).st
  IN /\ image = st.image
     /\ super_block = st.sb
     /\ is_mounted = st.mounted
     /\ disk_file_fail = st.fail
     /\ task_queue = << >>
     /\ queue_mutex = {}
     /\ cv_waiters = {}
     /\ running = TRUE
     /\ disk_mutex = {}
     /\ worker = [w \in Workers |-> IdleWorker]
     /\ producer = [pc |-> "input", count |-> 0, admin |-> 0, op |-> "none"]
     /\ dequeued = << >>
     /\ build = "main"
     /\ active_tasks = 0
     /\ executed = << >>
     /\ results = NoResults
     /\ pos_calc = PosIdle

MainPush ==
  /\ producer.pc = "input"
  /\ producer.count < MaxTasks
  /\ try_lock(queue_mutex, Producer)
  /\ \E kind \in ShutdownKinds :
       /\ task_queue' = Append(task_queue,
                               [id |-> producer.count + 1, type |-> kind.type,
                                args |-> kind.args, result |-> ""])
       /\ producer' = [producer EXCEPT
                         !.count = producer.count + 1,
                         !.pc = IF kind.type = "EXIT" THEN "notify_exit"
                                ELSE "notify"]
  /\ UNCHANGED <<queue_mutex, cv_waiters, running, disk_mutex, worker,
                 dequeued, build>>
  /\ UNCHANGED <<fs_vars, layout_vars, active_tasks, executed, results>>

\* cv.notify_one(), after the queue mutex is released.
MainNotifyOne ==
  /\ producer.pc \in {"notify", "notify_exit"}
  /\ \/ cv_waiters = {} /\ cv_waiters' = cv_waiters
     \/ \E x \in cv_waiters : cv_waiters' = cv_waiters \ {x}
  /\ producer' = [producer EXCEPT
                    !.pc = IF producer.pc = "notify" THEN "input" ELSE "stop"]
  /\ UNCHANGED <<task_queue, queue_mutex, running, disk_mutex, worker,
                 dequeued, build>>
  /\ UNCHANGED <<fs_vars, layout_vars, active_tasks, executed, results>>

\* running = false
MainStop ==
  /\ producer.pc = "stop"
  /\ running' = FALSE
  /\ producer' = [producer EXCEPT !.pc = "notify_all"]
  /\ UNCHANGED <<task_queue, queue_mutex, cv_waiters, disk_mutex, worker,
                 dequeued, build>>
  /\ UNCHANGED <<fs_vars, layout_vars, active_tasks, executed, results>>

\* cv.notify_all(), then the joins.
MainNotifyAll ==
  /\ producer.pc = "notify_all"
  /\ cv_waiters' = {}
  /\ producer' = [producer EXCEPT !.pc = "join"]
  /\ UNCHANGED <<task_queue, queue_mutex, running, disk_mutex, worker,
                 dequeued, build>>
  /\ UNCHANGED <<fs_vars, layout_vars, active_tasks, executed, results>>

NextDrain ==
  \/ \E w \in Workers : WorkerLoop(w)
  \/ \E w \in Workers : WorkerLockQueue(w)
  \/ \E w \in Workers : WorkerWait(w)
  \/ \E w \in Workers : WorkerBlock(w)
  \/ \E w \in Workers : WorkerWake(w)
  \/ \E w \in Workers : SpuriousWake(w)
  \/ \E w \in Workers : WorkerTake(w)
  \/ \E w \in Workers : WorkerLockDisk(w)
  \/ \E w \in Workers : WorkerTouchOpen(w)
  \/ \E w \in Workers : WorkerTouchCreate(w)
  \/ \E w \in Workers : WorkerExit(w)
  \/ \E w \in Workers : WorkerUnlockDisk(w)
  \/ \E w \in Workers : WorkerFinish(w)
  \/ MainPush
  \/ MainNotifyOne
  \/ MainStop
  \/ MainNotifyAll

SpecDrain == InitDrain /\ [][NextDrain]_vars

\* ---- get_inode_pos on the geometries of the builds ----
InitLayout ==
  /\ image = ZeroImage(FALSE)
  /\ super_block = ZeroSuperBlock
  /\ is_mounted = FALSE
  /\ disk_file_fail = FALSE
  /\ PoolIdle
  /\ \E g \in Geometries :
       pos_calc = [geometry |-> g, inode_num |-> 0, pos |-> get_inode_pos(g, 0)]

\* A call of get_inode_pos, any inode number up to the first invalid one.
GetInodePos ==
  /\ \E i \in 0..pos_calc.geometry.max_inodes :
       pos_calc' = [pos_calc EXCEPT
                      !.inode_num = i,
                      !.pos = get_inode_pos(pos_calc.geometry, i)]
  /\ UNCHANGED <<fs_vars, pool_vars>>

NextLayout == GetInodePos

SpecLayout == InitLayout /\ [][NextLayout]_vars

\* ---- wait_for_completion ----
\* The stress test's use of the pool: a thread enqueues a batch of tasks,
\* calls wait_for_completion and only then enqueues the next batch. No EXIT
\* is enqueued.
WaitKinds ==
  { [type |-> "TOUCH", args |-> <<"a">>],
    [type |-> "RM", args |-> <<"a">>] }

InitWait ==
  /\ InitPool
  /\ build = "ThreadPool"

AddWaitTask ==
  /\ producer.pc = "input"
  /\ producer.count < MaxTasks
  /\ try_lock(queue_mutex, Producer)
  /\ \E kind \in WaitKinds :
       /\ task_queue' = Append(task_queue,
                               [id |-> producer.count + 1, type |-> kind.type,
                                args |-> kind.args, result |-> ""])
       /\ producer' = [producer EXCEPT !.count = producer.count + 1]
  /\ \/ cv_waiters = {} /\ cv_waiters' = cv_waiters
     \/ \E x \in cv_waiters : cv_waiters' = cv_waiters \ {x}
  /\ UNCHANGED <<queue_mutex, running, disk_mutex, worker, dequeued, build>>
  /\ UNCHANGED <<fs_vars, layout_vars, active_tasks, executed, results>>

\* The call of wait_for_completion.
WaitCall ==
  /\ producer.pc = "input"
  /\ producer' = [producer EXCEPT !.pc = "wait_active"]
  /\ UNCHANGED <<task_queue, queue_mutex, cv_waiters, running, disk_mutex,
                 worker, dequeued, build>>
  /\ UNCHANGED <<fs_vars, layout_vars, active_tasks, executed, results>>

\* active_tasks > 0: the left operand of the loop condition, an atomic load.
WaitReadActive ==
  /\ producer.pc = "wait_active"
  /\ producer' = [producer EXCEPT
                    !.pc = IF active_tasks > 0 THEN "wait_sleep"
                           ELSE "wait_queue"]
  /\ UNCHANGED <<task_queue, queue_mutex, cv_waiters, running, disk_mutex,
                 worker, dequeued, build>>
  /\ UNCHANGED <<fs_vars, layout_vars, active_tasks, executed, results>>

\* What task_queue.empty() may return to a thread that does not hold the
\* queue mutex: the queue's state, or either answer while a worker is about
\* to pop under the mutex (the read races with the pop).
empty_unlocked ==
  {task_queue = << >>}
    \cup (IF \E w \in Workers : worker[w].pc = "check" /\ task_queue # << >>
          THEN BOOLEAN ELSE {})

\* !task_queue.empty(): the right operand, read without the queue mutex. The
\* loop ends when both operands were false.
WaitReadQueue ==
  /\ producer.pc = "wait_queue"
  /\ \E empty \in empty_unlocked :
       producer' = [producer EXCEPT
                      !.pc = IF empty THEN "returned" ELSE "wait_sleep"]
  /\ UNCHANGED <<task_queue, queue_mutex, cv_waiters, running, disk_mutex,
                 worker, dequeued, build>>
  /\ UNCHANGED <<fs_vars, layout_vars, active_tasks, executed, results>>

\* sleep_for(100ms), then the condition again.
WaitSleep ==
  /\ producer.pc = "wait_sleep"
  /\ producer' = [producer EXCEPT !.pc = "wait_active"]
  /\ UNCHANGED <<task_queue, queue_mutex, cv_waiters, running, disk_mutex,
                 worker, dequeued, build>>
  /\ UNCHANGED <<fs_vars, layout_vars, active_tasks, executed, results>>

\* The caller goes on after wait_for_completion has returned.
WaitReturn ==
  /\ producer.pc = "returned"
  /\ producer' = [producer EXCEPT !.pc = "input"]
  /\ UNCHANGED <<task_queue, queue_mutex, cv_waiters, running, disk_mutex,
                 worker, dequeued, build>>
  /\ UNCHANGED <<fs_vars, layout_vars, active_tasks, executed, results>>

NextWait ==
  \/ \E w \in Workers : WorkerLoop(w)
  \/ \E w \in Workers : WorkerLockQueue(w)
  \/ \E w \in Workers : WorkerWait(w)
  \/ \E w \in Workers : WorkerBlock(w)
  \/ \E w \in Workers : WorkerWake(w)
  \/ \E w \in Workers : SpuriousWake(w)
  \/ \E w \in Workers : WorkerTake(w)
  \/ \E w \in Workers : WorkerLockDisk(w)
  \/ \E w \in Workers : WorkerTouchOpen(w)
  \/ \E w \in Workers : WorkerTouchCreate(w)
  \/ \E w \in Workers : WorkerRm(w)
  \/ \E w \in Workers : WorkerThrow(w)
  \/ \E w \in Workers : WorkerUnlockDisk(w)
  \/ \E w \in Workers : WorkerFinish(w)
  \/ AddWaitTask
  \/ WaitCall
  \/ WaitReadActive
  \/ WaitReadQueue
  \/ WaitSleep
  \/ WaitReturn

SpecWait == InitWait /\ [][NextWait]_vars

\* ---- TOUCH tasks of one name ----
\* Every command is a TOUCH of the same name, on the freshly formatted and
\* mounted image.
TouchKinds == { [type |-> "TOUCH", args |-> <<"a">>] }

\* An add_task that pushes and does not notify.
AddTouchTask_no_notify ==
  /\ producer.pc = "input"
  /\ producer.count < MaxTasks
  /\ try_lock(queue_mutex, Producer)
  /\ \E kind \in TouchKinds :
       /\ task_queue' = Append(task_queue,
                               [id |-> producer.count + 1, type |-> kind.type,
                                args |-> kind.args, result |-> ""])
       /\ producer' = [producer EXCEPT !.count = producer.count + 1]
  /\ UNCHANGED <<queue_mutex, cv_waiters, running, disk_mutex, worker,
                 dequeued, build>>
  /\ UNCHANGED <<fs_vars, layout_vars, active_tasks, executed, results>>

AddTouchTask ==
  /\ producer.pc = "input"
  /\ producer.count < MaxTasks
  /\ try_lock(queue_mutex, Producer)
  /\ \E kind \in TouchKinds :
       /\ task_queue' = Append(task_queue,
                               [id |-> producer.count + 1, type |-> kind.type,
                                args |-> kind.args, result |-> ""])
       /\ producer' = [producer EXCEPT !.count = producer.count + 1]
  /\ \/ cv_waiters = {} /\ cv_waiters' = cv_waiters
     \/ \E x \in cv_waiters : cv_waiters' = cv_waiters \ {x}
  /\ UNCHANGED <<queue_mutex, running, disk_mutex, worker, dequeued, build>>
  /\ UNCHANGED <<fs_vars, layout_vars, active_tasks, executed, results>>

NextTouch ==
  \/ \E w \in Workers : WorkerLoop(w)
  \/ \E w \in Workers : WorkerLockQueue(w)
  \/ \E w \in Workers : WorkerWait(w)
  \/ \E w \in Workers : WorkerBlock(w)
  \/ \E w \in Workers : WorkerWake(w)
  \/ \E w \in Workers : SpuriousWake(w)
  \/ \E w \in Workers : WorkerTake(w)
  \/ \E w \in Workers : WorkerLockDisk(w)
  \/ \E w \in Workers : WorkerTouchOpen(w)
  \/ \E w \in Workers : WorkerTouchCreate(w)
  \/ \E w \in Workers : WorkerUnlockDisk(w)
  \/ \E w \in Workers : WorkerFinish(w)
  \/ AddTouchTask

SpecTouch == InitPool /\ [][NextTouch]_vars

\* The same program under fair scheduling: a worker that can take a step
\* eventually takes one. The producer and the spurious wake-ups are under no
\* obligation. No EXIT is enqueued: the pool keeps running.
SpecTouchFair ==
  InitPool /\ [][NextTouch]_vars /\ \A w \in Workers : WF_vars(WorkerStep(w))

\* ---- whole handlers, one after the other ----
\* The TOUCH handler as one call: the look-up, then the creation.
touch_handler(st, args) ==
  LET c == create_file(st, args[1])
  IN IF open_file(st, args[1]) # -1 THEN [st |-> st, result |-> "touch: exists"]
     ELSE IF c.ret = -1 THEN [st |-> c.st, result |-> "touch: not created"]
     ELSE [st |-> c.st, result |-> "touch: created"]

\* The RM handler.
rm_handler(st, args) ==
  LET d == delete_file(st, args[1])
  IN [st |-> d.st, result |-> IF d.ret THEN "rm: ok" ELSE "rm: failed"]

execute_task(st, task) ==
  CASE task.type = "TOUCH" -> touch_handler(st, task.args)
    [] task.type = "RM" -> rm_handler(st, task.args)
    [] OTHER -> [st |-> st, result |-> "exit"]

\* The handlers of the tasks run one after the other from st: the state
\* they leave and the result of each.
RECURSIVE Serial(_, _)
Serial(st, tasks) ==
  IF tasks = << >> THEN [st |-> st, results |-> << >>]
  ELSE LET h == execute_task(st, Head(tasks))
           rest == Serial(h.st, Tail(tasks))
       IN [st |-> rest.st, results |-> <<h.result>> \o rest.results]

\* Tasks of both kinds on the freshly formatted and mounted image, either
\* worker loop, no other thread in the filesystem.
NextSerial ==
  \/ \E w \in Workers : WorkerLoop(w)
  \/ \E w \in Workers : WorkerLockQueue(w)
  \/ \E w \in Workers : WorkerWait(w)
  \/ \E w \in Workers : WorkerBlock(w)
  \/ \E w \in Workers : WorkerWake(w)
  \/ \E w \in Workers : SpuriousWake(w)
  \/ \E w \in Workers : WorkerTake(w)
  \/ \E w \in Workers : WorkerLockDisk(w)
  \/ \E w \in Workers : WorkerTouchOpen(w)
  \/ \E w \in Workers : WorkerTouchCreate(w)
  \/ \E w \in Workers : WorkerRm(w)
  \/ \E w \in Workers : WorkerUnlockDisk(w)
  \/ \E w \in Workers : WorkerFinish(w)
  \/ AddWaitTask

SpecSerial == InitPool /\ [][NextSerial]_vars

\* ---- properties ----
\* The image carries a filesystem: format has completed on it.
Formatted == image.exists /\ image.sb.magic = "SIMFSv1"

InodeNums == 0..(MAX_INODES - 1)
FileInodeNums == 1..(MAX_INODES - 1)
Slots == 0..(DIR_ENTRIES - 1)

\* The inode records that are used regular files.
UsedFiles == { i \in InodeNums :
                 image.inodes[i].used = 1 /\ image.inodes[i].type = 1 }

ZeroBits(bitmap) == Cardinality({ i \in DOMAIN bitmap : bitmap[i] = 0 })

\* C1: on a formatted image, bit i of the inode bitmap is set exactly when
\* inode record i has used = 1.
C1_InodeBitmapMatchesUsed ==
  Formatted =>
    \A i \in InodeNums :
      (image.inode_bitmap[i] = 1) <=> (image.inodes[i].used = 1)

\* C2: on a formatted image, the bit of data block b is set exactly when b
\* is the root directory's block or is listed in blocks[] of an inode record
\* with used = 1 and type = 1.
C2_BlockBitmapMatchesReferences ==
  Formatted =>
    \A b \in DataRegion :
      (image.block_bitmap[b - L.data_start] = 1)
        <=> \/ b = image.inodes[0].blocks[0]
            \/ \E i \in UsedFiles, k \in 0..(NDIRECT - 1) :
                  image.inodes[i].blocks[k] = b

\* C3: on a formatted image the superblock's free_inodes is the number of
\* zero bits of the inode bitmap and its free_blocks the number of zero bits
\* of the block bitmap; the in-memory superblock of a mounted filesystem
\* carries the same two numbers.
C3_FreeCountersMatchBitmaps ==
  Formatted =>
    /\ image.sb.free_inodes = ZeroBits(image.inode_bitmap)
    /\ image.sb.free_blocks = ZeroBits(image.block_bitmap)
    /\ is_mounted =>
         /\ super_block.free_inodes = ZeroBits(image.inode_bitmap)
         /\ super_block.free_blocks = ZeroBits(image.block_bitmap)

\* Mounted, one file inode allocated and one freed again, the data region
\* exhausted.
C3_Witness ==
  /\ Formatted /\ is_mounted
  /\ \E i \in FileInodeNums : image.inode_bitmap[i] = 1
  /\ \E i \in FileInodeNums : image.inode_bitmap[i] = 0 /\ image.inodes[i].size > 0
  /\ super_block.free_blocks = 0

\* C4: on a formatted image no two valid directory entries, slot 0
\* included, carry the same name.
C4_NamesUnique ==
  Formatted =>
    \A i \in Slots, j \in Slots :
      (i # j /\ image.dir[i].valid # 0 /\ image.dir[j].valid # 0)
        => image.dir[i].name # image.dir[j].name

\* C5: on a formatted image inode 0 is a used directory whose blocks[0] is
\* the block format gave it, both bitmap bits of the root stay set, slot 0
\* of the root directory is {".", 0, valid}, and no other inode record
\* lists the root's block.
C5_RootStable ==
  Formatted =>
    /\ image.inodes[0].used = 1
    /\ image.inodes[0].type = 2
    /\ image.inodes[0].blocks[0] = L.data_start
    /\ image.inodes[0].blocks[0] # 0
    /\ image.inode_bitmap[0] = 1
    /\ image.block_bitmap[0] = 1
    /\ image.dir[0] = [name |-> ".", inode_num |-> 0, valid |-> 1]
    /\ \A i \in FileInodeNums, k \in 0..(NDIRECT - 1) :
         image.inodes[i].blocks[k] # L.data_start

\* Every directory slot is taken, a file holds a block and the data region
\* is exhausted: creates and writes have searched both bitmaps to the end.
C5_Witness ==
  /\ Formatted /\ is_mounted
  /\ \A i \in Slots : image.dir[i].valid # 0
  /\ \E i \in UsedFiles : image.inodes[i].blocks[0] # 0
  /\ super_block.free_blocks = 0

\* C6: on a formatted image every used file inode has
\* size <= NDIRECT * BLOCK_SIZE.
C6_SizeWithinDirectBlocks ==
  Formatted =>
    \A i \in UsedFiles : image.inodes[i].size <= NDIRECT * BLOCK_SIZE

\* The stream is good: no open() has failed since the last call that
\* clears the error state.  format() on a mounted filesystem is the one call
\* that makes it fail while mounted.
StreamGood == ~disk_file_fail

\* What the read-only calls and the superblock show of a state.
Observed(st) ==
  [ list |-> list_files(st),
    open |-> [name \in Names |-> open_file(st, name)],
    size |-> [i \in InodeArgs |-> get_file_size(st, i)],
    read |-> [i \in InodeArgs, n \in Sizes, off \in Offsets |->
                read_file(st, i, n, off, -1)],
    free_blocks |-> st.sb.free_blocks,
    free_inodes |-> st.sb.free_inodes ]

\* C7: from any state file operations have led a mounted filesystem to,
\* unmount followed by mount succeeds and list_files, open_file,
\* get_file_size and read_file return what they returned before the
\* unmount, and the reloaded free_blocks and free_inodes are the values
\* before the unmount.
C7_Persistence ==
  (is_mounted /\ StreamGood) =>
    LET u == unmount(St)
        m == mount(u.st)
    IN /\ u.ret /\ ~u.st.mounted
       /\ m.ret /\ m.st.mounted
       /\ Observed(m.st) = Observed(St)

\* Two files are listed, one of them holds bytes, and blocks are in use.
C7_Witness ==
  /\ is_mounted /\ StreamGood
  /\ Len(list_files(St)) >= 2
  /\ \E i \in UsedFiles : image.inodes[i].size > BLOCK_SIZE
  /\ super_block.free_blocks = 0

\* The most bytes a file holds.
Capacity == NDIRECT * BLOCK_SIZE

\* The free blocks suffice to allocate the blocks of f that cover [0, n).
EnoughFreeBlocks(f, n) ==
  Cardinality({ k \in 0..(NDIRECT - 1) :
                  k * BLOCK_SIZE < n /\ image.inodes[f].blocks[k] = 0 })
    <= super_block.free_blocks

\* C8: on a mounted filesystem, for every used file inode f and every
\* content c of at most Capacity bytes that the free blocks can hold,
\* write_file(f, c, len(c), 0) followed by read_file(f, buf, len(c), 0)
\* reads exactly the bytes of c, and both calls return len(c) when c is not
\* empty.
C8_RoundTrip ==
  (is_mounted /\ StreamGood) =>
    \A f \in UsedFiles, v \in 1..MaxByte, n \in 0..Capacity :
      EnoughFreeBlocks(f, n) =>
        LET c == Buf(v, n)
            w == write_file(St, f, c, 0, -1)
            r == read_file(w.st, f, n, 0, -1)
        IN /\ r.data = c
           /\ n > 0 => (w.ret = n /\ r.ret = n)

\* A used file with earlier contents, a hole in place of its first block,
\* and a free block left to fill the hole.
C8_Witness ==
  /\ is_mounted /\ StreamGood
  /\ \E f \in UsedFiles :
       /\ image.inodes[f].blocks[0] = 0
       /\ image.inodes[f].blocks[1] # 0
       /\ image.data[image.inodes[f].blocks[1]] # ZeroBlock
       /\ EnoughFreeBlocks(f, Capacity)

\* The blocks of inode f that cover [0, size) are allocated.
Covered(f) ==
  \A k \in 0..((image.inodes[f].size - 1) \div BLOCK_SIZE) :
    k < NDIRECT /\ image.inodes[f].blocks[k] # 0

\* The bytes [off, off + len) of the file of inode f.
FileBytes(f, off, len) ==
  [k \in 1..len |->
     image.data[image.inodes[f].blocks[(off + k - 1) \div BLOCK_SIZE]]
               [(off + k - 1) % BLOCK_SIZE]]

\* C9: on a mounted filesystem, for every used file inode of size s whose
\* blocks covering [0, s) are allocated, read_file(f, buf, n, off) returns
\* min(n, max(0, s - off)) and copies exactly the file's bytes
\* [off, off + result), for every off >= 0 and every n.
C9_ReadReturnsMin ==
  (is_mounted /\ StreamGood) =>
    \A f \in UsedFiles, n \in Sizes, off \in Offsets :
      Covered(f) =>
        LET s == image.inodes[f].size
            expected == Min(n, Max(0, s - off))
            r == read_file(St, f, n, off, -1)
        IN /\ r.ret = expected
           /\ r.data = FileBytes(f, off, expected)

\* C10: on a mounted filesystem a create_file(name) that succeeds returns
\* the smallest inode number whose bitmap bit was clear, at least 1;
\* afterwards open_file(name) returns that number, is_inode_used is true
\* for it, its size is 0 and its block pointers are zero, list_files has
\* the entries it had and one more (name -> that inode), free_inodes is one
\* less and free_blocks is unchanged.
C10_CreateFile ==
  (is_mounted /\ StreamGood) =>
    \A name \in Names :
      LET r == create_file(St, name)
          old == list_files(St)
          new == list_files(r.st)
      IN r.ret # -1 =>
           /\ r.ret >= 1
           /\ image.inode_bitmap[r.ret] = 0
           /\ \A j \in 0..(r.ret - 1) : image.inode_bitmap[j] = 1
           /\ open_file(r.st, name) = r.ret
           /\ is_inode_used(r.st, r.ret).ret
           /\ get_file_size(r.st, r.ret) = 0
           /\ \A k \in 0..(NDIRECT - 1) : r.st.image.inodes[r.ret].blocks[k] = 0
           /\ Len(new) = Len(old) + 1
           /\ \E k \in 1..Len(new) :
                /\ new[k] = [name |-> name, inode_num |-> r.ret, valid |-> 1]
                /\ old = [j \in 1..Len(old) |-> IF j < k THEN new[j] ELSE new[j + 1]]
           /\ r.st.sb.free_inodes = super_block.free_inodes - 1
           /\ r.st.sb.free_blocks = super_block.free_blocks

\* A create succeeds and takes inode 1 below a used inode 2, in a directory
\* that lists a file holding a block.
C10_Witness ==
  /\ is_mounted /\ StreamGood
  /\ image.inode_bitmap[2] = 1
  /\ \E i \in UsedFiles : image.inodes[i].blocks[0] # 0
  /\ \E name \in Names : create_file(St, name).ret = 1

\* The name has a valid entry in the root directory block.
HasValidEntry(name) ==
  \E i \in Slots : image.dir[i].valid # 0 /\ image.dir[i].name = name

\* C11: on a mounted filesystem create_file(name) for a name that has a
\* valid directory entry returns -1 and leaves the image (directory block,
\* inodes, data blocks, both bitmaps) and both superblocks unchanged.
C11_DuplicateCreateRejected ==
  is_mounted =>
    \A name \in Names :
      HasValidEntry(name) =>
        LET r == create_file(St, name)
        IN /\ r.ret = -1
           /\ r.st.image = image
           /\ r.st.sb = super_block

\* The list without its k-th element.
Without(seq, k) ==
  [j \in 1..(Len(seq) - 1) |-> IF j < k THEN seq[j] ELSE seq[j + 1]]

\* C12: a delete_file(name) that succeeds on the file of inode X leaves
\* is_inode_used(X) false and bit X of the inode bitmap clear, free_inodes
\* one higher, free_blocks higher by the number k of non-zero block
\* pointers X held with those k bits clear; open_file(name) returns -1 and
\* list_files has lost exactly that entry; every other directory slot,
\* every other inode record and every data block is unchanged.
C12_DeleteFile ==
  is_mounted =>
    \A name \in Names :
      LET r == delete_file(St, name)
          X == open_file(St, name)
          held == { k \in 0..(NDIRECT - 1) : image.inodes[X].blocks[k] # 0 }
          old == list_files(St)
          new == list_files(r.st)
      IN r.ret =>
           /\ X >= 1
           /\ ~is_inode_used(r.st, X).ret
           /\ r.st.image.inode_bitmap[X] = 0
           /\ r.st.sb.free_inodes = super_block.free_inodes + 1
           /\ r.st.sb.free_blocks = super_block.free_blocks + Cardinality(held)
           /\ r.st.image.sb = r.st.sb
           /\ \A k \in held :
                r.st.image.block_bitmap[image.inodes[X].blocks[k] - L.data_start] = 0
           /\ open_file(r.st, name) = -1
           /\ \E k \in 1..Len(old) :
                /\ old[k].name = name /\ old[k].inode_num = X
                /\ new = Without(old, k)
           /\ \A i \in Slots :
                \/ r.st.image.dir[i] = image.dir[i]
                \/ /\ image.dir[i].name = name /\ image.dir[i].inode_num = X
                   /\ r.st.image.dir[i] = [image.dir[i] EXCEPT !.valid = 0]
           /\ \A i \in InodeNums \ {X} : r.st.image.inodes[i] = image.inodes[i]
           /\ r.st.image.data = image.data

\* Two files are listed and the delete of one that holds two blocks
\* succeeds.
C12_Witness ==
  /\ is_mounted
  /\ Len(list_files(St)) >= 2
  /\ \E name \in Names :
       /\ delete_file(St, name).ret
       /\ \A k \in 0..(NDIRECT - 1) :
            image.inodes[open_file(St, name)].blocks[k] # 0

\* Every root directory slot but the reserved slot 0 is valid.
DirectoryFull == \A i \in 1..(DIR_ENTRIES - 1) : image.dir[i].valid # 0

\* Every bit of the inode bitmap is set.
NoFreeInode == \A i \in InodeNums : image.inode_bitmap[i] = 1

\* C13: on a mounted filesystem with no free inode or with a full root
\* directory, a create_file that fails leaves the inode bitmap and
\* free_inodes (in memory and on disk) as they were, and so does the same
\* create repeated on the state the first one left.
C13_FailedCreateKeepsInodes ==
  is_mounted =>
    \A name \in Names :
      LET r == create_file(St, name)
          r2 == create_file(r.st, name)
      IN ((NoFreeInode \/ DirectoryFull) /\ r.ret = -1) =>
           /\ r.st.image.inode_bitmap = image.inode_bitmap
           /\ r.st.sb.free_inodes = super_block.free_inodes
           /\ r.st.image.sb.free_inodes = image.sb.free_inodes
           /\ r2.ret = -1
           /\ r2.st.image.inode_bitmap = image.inode_bitmap
           /\ r2.st.sb.free_inodes = super_block.free_inodes
           /\ r2.st.image.sb.free_inodes = image.sb.free_inodes

\* The directory is full, a create of a new valid name fails, and the
\* inode the create would take carries the record an earlier failed create
\* wrote.
C13_Witness ==
  /\ is_mounted /\ DirectoryFull
  /\ \E name \in Names :
       /\ name # "" /\ Len(name) < MAX_FILENAME /\ ~HasValidEntry(name)
       /\ create_file(St, name).ret = -1
  /\ find_free_inode(St) >= 1
  /\ image.inodes[find_free_inode(St)].used = 1

\* C14: while the filesystem is not mounted, create_file, open_file,
\* read_file, write_file, delete_file, list_files and get_file_size return
\* their failure outcome (-1, false, the empty list) for every argument,
\* and the calls that can write leave the image and the in-memory
\* superblock as they were.
C14_UnmountedRejects ==
  ~is_mounted =>
    /\ list_files(St) = << >>
    /\ \A name \in Names :
         /\ create_file(St, name) = [st |-> St, ret |-> -1]
         /\ delete_file(St, name) = [st |-> St, ret |-> FALSE]
         /\ open_file(St, name) = -1
    /\ \A i \in InodeArgs :
         /\ get_file_size(St, i) = -1
         /\ \A n \in Sizes, off \in Offsets, u \in {-1, 0} :
              /\ read_file(St, i, n, off, u) = [ret |-> -1, data |-> << >>]
              /\ write_file(St, i, Buf(1, n), off, u) = [st |-> St, ret |-> -1]

\* Unmounted with a file on the image: a listed name whose inode holds
\* bytes.
C14_Witness ==
  /\ ~is_mounted /\ Formatted
  /\ HasValidEntry("a")
  /\ \E i \in UsedFiles : image.inodes[i].size > 0 /\ image.inodes[i].blocks[0] # 0

\* C15: a format that succeeds on an unmounted filesystem, whatever the
\* image held, leaves it unmounted, and mount then succeeds on an image with
\* free_blocks = data_blocks - 1, free_inodes = total_inodes - 1, inode 0
\* the only used inode (bitmap and record), the root's data block the only
\* set block bit, and an empty list_files.
C15_FormatYieldsEmptyFilesystem ==
  ~is_mounted =>
    LET f == format(St)
        m == mount(f.st)
    IN f.ret =>
         /\ ~f.st.mounted
         /\ m.ret /\ m.st.mounted
         /\ m.st.sb.free_blocks = m.st.sb.data_blocks - 1
         /\ m.st.sb.free_inodes = m.st.sb.total_inodes - 1
         /\ m.st.sb.data_blocks = L.data_blocks
         /\ m.st.sb.total_inodes = MAX_INODES
         /\ \A i \in InodeNums :
              /\ (m.st.image.inode_bitmap[i] = 1) <=> (i = 0)
              /\ (m.st.image.inodes[i].used = 1) <=> (i = 0)
         /\ \A b \in DataRegion :
              (m.st.image.block_bitmap[b - L.data_start] = 1)
                <=> (b = m.st.image.inodes[0].blocks[0])
         /\ list_files(m.st) = << >>

\* Unmounted, the image holds two listed files, one of them with two
\* blocks, and format succeeds.
C15_Witness ==
  /\ ~is_mounted /\ Formatted
  /\ DirectoryFull
  /\ \E i \in UsedFiles : \A k \in 0..(NDIRECT - 1) : image.inodes[i].blocks[k] # 0
  /\ format(St).ret

\* Every file operation is rejected in state st.
Rejected(st) ==
  /\ list_files(st) = << >>
  /\ \A name \in Names :
       /\ create_file(st, name).ret = -1
       /\ ~delete_file(st, name).ret
       /\ open_file(st, name) = -1
  /\ \A i \in InodeArgs :
       /\ get_file_size(st, i) = -1
       /\ read_file(st, i, 1, 0, -1).ret = -1
       /\ write_file(st, i, Ones(1), 0, -1).ret = -1

\* C16: mount of an existing image whose magic is not "SIMFSv1" fails,
\* leaves the image as it is and the filesystem unmounted with the backing
\* file closed (format can open it again), and file operations are still
\* rejected; mount of a formatted image succeeds and leaves the filesystem
\* mounted; unmount succeeds and leaves it unmounted.
C16_MountChecksMagic ==
  /\ ~is_mounted =>
       LET m == mount(St)
       IN /\ (image.exists /\ image.sb.magic # "SIMFSv1") =>
               /\ ~m.ret /\ ~m.st.mounted
               /\ m.st.image = image
               /\ Rejected(m.st)
               /\ format(m.st).ret
          /\ Formatted =>
               /\ m.ret /\ m.st.mounted
               /\ unmount(m.st).ret /\ ~unmount(m.st).st.mounted
  /\ is_mounted => (unmount(St).ret /\ ~unmount(St).st.mounted)

\* An existing image without the magic, not mounted, and mount refuses it.
C16_Witness ==
  /\ ~is_mounted
  /\ image.exists /\ image.sb.magic # "SIMFSv1"
  /\ ~mount(St).ret

\* The valid directory entries with their inode numbers.
ValidEntries(st) ==
  { [slot |-> i, name |-> st.image.dir[i].name,
     inode_num |-> st.image.dir[i].inode_num] :
      i \in { j \in Slots : st.image.dir[j].valid # 0 } }

\* What a file holds: its size and the bytes of each block it references.
FileContents(st, i) ==
  [ size |-> st.image.inodes[i].size,
    blocks |-> [k \in 0..(NDIRECT - 1) |->
                  IF st.image.inodes[i].blocks[k] \in DataRegion
                  THEN st.image.data[st.image.inodes[i].blocks[k]]
                  ELSE ZeroBlock] ]

C18_FifoSingleDelivery ==
  /\ queue_mutex = { w \in Workers : worker[w].pc \in {"wait", "block", "check"} }
  /\ Cardinality(queue_mutex) <= 1
  /\ \A k \in 1..Len(dequeued) : dequeued[k].id = k
  /\ \A j \in 1..Len(task_queue) : task_queue[j].id = Len(dequeued) + j
  /\ Len(dequeued) + Len(task_queue) = producer.count
  /\ \A w \in Workers :
       worker[w].task # NoTask =>
         \E k \in 1..Len(dequeued) :
           dequeued[k] = [id |-> worker[w].task.id, by |-> w]

\* Every task of the run was taken, by both workers in turn.
C18_Witness ==
  /\ Len(dequeued) = MaxTasks
  /\ \E j \in 1..Len(dequeued) : \E k \in 1..Len(dequeued) :
       j < k /\ dequeued[j].by # dequeued[k].by

\* The threads inside a filesystem section: a worker from the lock of its
\* handler to the unlock, the producer from the lock of an administrative
\* command to the unlock.
InFilesystem ==
  { w \in Workers :
      worker[w].pc \in {"execute", "touch_create", "unlock_disk"} }
    \cup (IF producer.pc \in {"admin", "admin_unlock"} THEN {Producer} ELSE {})

AllWorkersDone == \A w \in Workers : worker[w].pc = "done"

\* C20: once EXIT has been processed and the running flag is cleared, every
\* worker eventually leaves its loop, the workers blocked in the wait (or
\* about to block) included.
C20_ShutdownReachesEveryWorker == (~running) ~> AllWorkersDone

\* The tasks that have run to completion: taken from the queue and no longer
\* in a worker's hands.
Completed ==
  { dequeued[k].id : k \in 1..Len(dequeued) }
    \ { worker[w].task.id : w \in Workers }

\* The number of the EXIT task, 0 while none has been enqueued.
ExitId ==
  IF producer.count > 0 /\ producer.pc \notin {"input", "notify"}
  THEN producer.count ELSE 0

\* C21: when the workers have terminated, every task enqueued before EXIT
\* has run to completion.
C21_DrainBeforeTermination ==
  AllWorkersDone => \A id \in 1..(ExitId - 1) : id \in Completed

\* C22: when a handler throws, the worker is left with the generic error
\* result and without the filesystem mutex, which is free for the others;
\* its next step takes it back to the top of its loop, and neither step
\* clears the running flag (EXIT apart, which clears it as it always does).
C22_ThrowingHandlerContinues ==
  [][\A w \in Workers :
       /\ (worker[w].task.result # ExecError
             /\ worker'[w].task.result = ExecError) =>
            /\ worker'[w].pc = "finish"
            /\ worker'[w].task.id = worker[w].task.id
            /\ disk_mutex' = {}
            /\ running' = running
       /\ (worker[w].task.result = ExecError /\ worker'[w] # worker[w]) =>
            /\ w \notin disk_mutex
            /\ worker[w].task.type # "EXIT" =>
                 worker'[w].pc = "loop" /\ running' = running]_vars

\* A TOUCH has thrown while the other worker waits for the filesystem mutex
\* with a task in its hands, and a later task is still in the queue.
C22_Witness ==
  \E w \in Workers : \E v \in Workers :
    /\ v # w
    /\ worker[w].task.result = ExecError
    /\ worker[w].task.type = "TOUCH"
    /\ worker[w].pc = "finish"
    /\ worker[v].pc = "lock_disk"
    /\ disk_mutex = {}
    /\ task_queue # << >>

\* The free counters and the bitmaps, in memory and in the image.
Counted(st) ==
  [ free_blocks |-> st.sb.free_blocks,
    free_inodes |-> st.sb.free_inodes,
    disk_free_blocks |-> st.image.sb.free_blocks,
    disk_free_inodes |-> st.image.sb.free_inodes,
    block_bitmap |-> st.image.block_bitmap,
    inode_bitmap |-> st.image.inode_bitmap ]

\* C23: on a mounted filesystem, for every block of the data region and
\* every inode number, a set call moves the free counter only when it flips
\* the bit: the second of two set(i, true) calls leaves the counters where
\* the first left them, set(i, false) on a clear bit changes no counter and
\* no bitmap, and set(i, true) followed by set(i, false) on a clear bit
\* gives back the bitmaps and the counters of the start.
C23_BitmapSetOnlyOnFlip ==
  is_mounted =>
    /\ \A b \in DataRegion :
         LET once == set_block_bitmap(St, b, TRUE).st
             twice == set_block_bitmap(once, b, TRUE).st
             cleared == set_block_bitmap(St, b, FALSE).st
             back == set_block_bitmap(once, b, FALSE).st
         IN /\ Counted(twice) = Counted(once)
            /\ image.block_bitmap[b - L.data_start] = 1
                 => Counted(once) = Counted(St)
            /\ image.block_bitmap[b - L.data_start] = 0
                 => /\ Counted(cleared) = Counted(St)
                    /\ Counted(back) = Counted(St)
    /\ \A i \in InodeNums :
         LET once == set_inode_bitmap(St, i, TRUE).st
             twice == set_inode_bitmap(once, i, TRUE).st
             cleared == set_inode_bitmap(St, i, FALSE).st
             back == set_inode_bitmap(once, i, FALSE).st
         IN /\ Counted(twice) = Counted(once)
            /\ image.inode_bitmap[i] = 1 => Counted(once) = Counted(St)
            /\ image.inode_bitmap[i] = 0
                 => /\ Counted(cleared) = Counted(St)
                    /\ Counted(back) = Counted(St)

\* Mounted with a working stream, a free and a used block in the data
\* region and a free and a used file inode: the set calls succeed, and the
\* one on the clear bit moves the counter.
C23_Witness ==
  /\ is_mounted /\ StreamGood
  /\ \E b \in DataRegion :
       /\ image.block_bitmap[b - L.data_start] = 0
       /\ set_block_bitmap(St, b, TRUE).ret
       /\ set_block_bitmap(St, b, TRUE).st.sb.free_blocks
            = super_block.free_blocks - 1
  /\ \E b \in DataRegion \ {L.data_start} :
       /\ image.block_bitmap[b - L.data_start] = 1
       /\ set_block_bitmap(St, b, TRUE).ret
  /\ \E i \in FileInodeNums :
       /\ image.inode_bitmap[i] = 0
       /\ set_inode_bitmap(St, i, TRUE).ret
       /\ set_inode_bitmap(St, i, TRUE).st.sb.free_inodes
            = super_block.free_inodes - 1
  /\ \E i \in FileInodeNums :
       /\ image.inode_bitmap[i] = 1
       /\ set_inode_bitmap(St, i, FALSE).ret

\* r is what a first-fit search of bitmap answers: base + i for the smallest
\* i below n whose bit is zero, -1 exactly when there is no such bit.
FirstFit(r, bitmap, n, base) ==
  /\ (r = -1) <=> (\A i \in 0..(n - 1) : bitmap[i] = 1)
  /\ (r # -1) =>
       /\ r - base \in 0..(n - 1)
       /\ bitmap[r - base] = 0
       /\ \A i \in 0..(r - base - 1) : bitmap[i] = 1

\* C24: on a mounted filesystem whose stream works, find_free_block returns
\* data_start + i for the smallest i in [0, data_blocks) with a zero bit and
\* find_free_inode the smallest i in [0, total_inodes) with a zero bit, each
\* -1 exactly when no bit is zero; after set(x, true) the search does not
\* return x, and after set(x, false) it returns x when every lower bit is
\* set.
C24_FindFreeFirstFit ==
  (is_mounted /\ StreamGood) =>
    /\ FirstFit(find_free_block(St), image.block_bitmap,
                super_block.data_blocks, super_block.data_start)
    /\ FirstFit(find_free_inode(St), image.inode_bitmap,
                super_block.total_inodes, 0)
    /\ \A x \in DataRegion :
         LET taken == set_block_bitmap(St, x, TRUE).st
             freed == set_block_bitmap(St, x, FALSE).st
         IN /\ find_free_block(taken) # x
            /\ FirstFit(find_free_block(taken), taken.image.block_bitmap,
                        super_block.data_blocks, super_block.data_start)
            /\ (\A y \in DataRegion :
                  y < x => image.block_bitmap[y - L.data_start] = 1)
                 => find_free_block(freed) = x
    /\ \A x \in InodeNums :
         LET taken == set_inode_bitmap(St, x, TRUE).st
             freed == set_inode_bitmap(St, x, FALSE).st
         IN /\ find_free_inode(taken) # x
            /\ FirstFit(find_free_inode(taken), taken.image.inode_bitmap,
                        super_block.total_inodes, 0)
            /\ (\A y \in InodeNums : y < x => image.inode_bitmap[y] = 1)
                 => find_free_inode(freed) = x

\* Mounted with a working stream: a used block below a free one, so that
\* the block search passes over a set bit; a free inode below a used one;
\* taking the last free block makes the block search answer -1.
C24_Witness ==
  /\ is_mounted /\ StreamGood
  /\ find_free_block(St) = L.data_start + L.data_blocks - 1
  /\ set_block_bitmap(St, find_free_block(St), TRUE).ret
  /\ find_free_block(set_block_bitmap(St, find_free_block(St), TRUE).st) = -1
  /\ find_free_inode(St) = 1
  /\ \E i \in FileInodeNums : i > 1 /\ image.inode_bitmap[i] = 1

\* File inode f is as create_file leaves it: empty, no block pointer.
NewFile(f) ==
  /\ image.inodes[f].size = 0
  /\ \A k \in 0..(NDIRECT - 1) : image.inodes[f].blocks[k] = 0

Touched(n, off) ==
  { k \in 0..(NDIRECT - 1) : k * BLOCK_SIZE < off + n /\ (k + 1) * BLOCK_SIZE > off }

\* Those of them file inode f has no block for.
Unallocated(f, n, off) ==
  { k \in Touched(n, off) : image.inodes[f].blocks[k] = 0 }

SetBits(bitmap) == { i \in DOMAIN bitmap : bitmap[i] = 1 }

\* C26: on a mounted filesystem whose stream works, a write_file whose
\* bytes fall in block indices the inode has blocks for leaves free_blocks,
\* the block bitmap and the inode's block pointers as they were; one whose
\* bytes fall in j indices without a block, all below NDIRECT and with j
\* blocks free, lowers free_blocks by j and sets j more bits, clearing
\* none; and no write_file, on any mounted state, changes the inode bitmap,
\* free_inodes, the directory, or the record or the blocks of another file.
C26_WriteFrame ==
  is_mounted =>
    \A f \in UsedFiles, n \in Sizes \ {0}, off \in Offsets, v \in 1..MaxByte :
      LET st == write_file(St, f, Buf(v, n), off, -1).st
          j == Cardinality(Unallocated(f, n, off))
      IN /\ (StreamGood /\ off + n <= Capacity /\ j = 0) =>
              /\ st.sb.free_blocks = super_block.free_blocks
              /\ st.image.sb.free_blocks = image.sb.free_blocks
              /\ st.image.block_bitmap = image.block_bitmap
              /\ st.image.inodes[f].blocks = image.inodes[f].blocks
         /\ (StreamGood /\ off + n <= Capacity /\ j > 0
               /\ j <= super_block.free_blocks) =>
              /\ st.sb.free_blocks = super_block.free_blocks - j
              /\ st.image.sb.free_blocks = st.sb.free_blocks
              /\ SetBits(image.block_bitmap) \subseteq SetBits(st.image.block_bitmap)
              /\ Cardinality(SetBits(st.image.block_bitmap))
                   = Cardinality(SetBits(image.block_bitmap)) + j
         /\ st.image.inode_bitmap = image.inode_bitmap
         /\ st.sb.free_inodes = super_block.free_inodes
         /\ st.image.sb.free_inodes = image.sb.free_inodes
         /\ st.image.dir = image.dir
         /\ \A g \in UsedFiles \ {f} :
              /\ st.image.inodes[g] = image.inodes[g]
              /\ FileContents(st, g) = FileContents(St, g)

\* Mounted with a working stream, two files and one free block: g holds a
\* block, f none. The first write to f takes the free block; a second
\* write over the same bytes then allocates nothing.
C26_Witness ==
  /\ is_mounted /\ StreamGood
  /\ super_block.free_blocks = 1
  /\ \E f \in UsedFiles, g \in UsedFiles :
       /\ f # g
       /\ image.inodes[g].blocks[0] # 0
       /\ Unallocated(f, 2, 0) = {0}
       /\ LET first == write_file(St, f, Buf(1, 2), 0, -1)
              again == write_file(first.st, f, Buf(2, 2), 0, -1)
          IN /\ first.ret = 2
             /\ first.st.sb.free_blocks = 0
             /\ again.ret = 2
             /\ again.st.image.block_bitmap = first.st.image.block_bitmap

\* The data blocks that file inode f of state st does not reference.
BlocksOutside(st, f) ==
  { b \in DataRegion \ {L.data_start} :
      \A k \in 0..(NDIRECT - 1) : st.image.inodes[f].blocks[k] # b }

\* C27: on a mounted filesystem whose stream works, for a used file inode,
\* an offset in [0, Capacity), a size > 0 and free blocks for every block
\* index under the bytes that has none, write_file returns
\* min(size, Capacity - offset); the inode keeps NDIRECT block pointers, the
\* bytes that fit are the ones the file then holds at the offset, and no
\* data block outside the file's NDIRECT pointers changes.
C27_WriteStopsAtLastBlock ==
  (is_mounted /\ StreamGood) =>
    \A f \in UsedFiles, n \in Sizes \ {0}, off \in 0..(Capacity - 1),
       v \in 1..MaxByte :
      Cardinality(Unallocated(f, n, off)) <= super_block.free_blocks =>
        LET r == write_file(St, f, Buf(v, n), off, -1)
            w == Min(n, Capacity - off)
        IN /\ r.ret = w
           /\ DOMAIN r.st.image.inodes[f].blocks = 0..(NDIRECT - 1)
           /\ \A k \in 0..(w - 1) :
                r.st.image.data[r.st.image.inodes[f].blocks[(off + k) \div BLOCK_SIZE]]
                               [(off + k) % BLOCK_SIZE] = Buf(v, n)[k + 1]
           /\ \A b \in BlocksOutside(r.st, f) :
                r.st.image.data[b] = image.data[b]

\* Mounted with a working stream, a file and free blocks for all of it: a
\* write of Capacity + 1 bytes at offset 1 returns Capacity - 1, and a
\* write of one byte at the last offset returns 1.
C27_Witness ==
  /\ is_mounted /\ StreamGood
  /\ \E f \in UsedFiles :
       /\ Cardinality(Unallocated(f, Capacity + 1, 1)) = NDIRECT
       /\ super_block.free_blocks >= NDIRECT
       /\ write_file(St, f, Buf(1, Capacity + 1), 1, -1).ret = Capacity - 1
       /\ write_file(St, f, Buf(1, 1), Capacity - 1, -1).ret = 1

\* C28: on a mounted filesystem whose stream works, a write_file whose
\* bytes fall in a block index the inode has no block for, while the block
\* bitmap has no free block, fails: it returns -1.
C28_NoSpaceIsError ==
  (is_mounted /\ StreamGood /\ find_free_block(St) = -1) =>
    \A f \in UsedFiles, n \in Sizes \ {0}, off \in 0..(Capacity - 1),
       v \in 1..MaxByte :
      Unallocated(f, n, off) # {} =>
        write_file(St, f, Buf(v, n), off, -1).ret = -1

\* The lowest slot >= 1 of the directory of st whose valid flag is 0,
\* DIR_ENTRIES when there is none.
LowestFreeSlot(st) ==
  LET free == { i \in 1..(DIR_ENTRIES - 1) : st.image.dir[i].valid = 0 }
  IN IF free = {} THEN DIR_ENTRIES
     ELSE CHOOSE i \in free : \A j \in free : i <= j

\* C29: on a mounted filesystem whose stream works, a create_file that
\* succeeds writes {name, inode, valid} into the lowest slot >= 1 whose
\* valid flag was 0 and leaves every other slot, slot 0 included, as it
\* was; a delete_file that succeeds clears the valid flag of the lowest
\* slot >= 1 that holds the name and changes nothing else in the
\* directory; and a create_file that succeeds right after that delete puts
\* its entry in the freed slot whenever no lower slot is free, every other
\* slot staying as it was before the delete.
C29_SlotsStable ==
  (is_mounted /\ StreamGood) =>
    \A name \in Names :
      LET c == create_file(St, name)
          d == delete_file(St, name)
          k == LowestFreeSlot(St)
          freed == CHOOSE i \in 1..(DIR_ENTRIES - 1) :
                     d.st.image.dir[i] # image.dir[i]
      IN /\ c.ret # -1 =>
              /\ k \in 1..(DIR_ENTRIES - 1)
              /\ c.st.image.dir =
                   [image.dir EXCEPT ![k] = [name |-> name, inode_num |-> c.ret,
                                             valid |-> 1]]
         /\ d.ret =>
              /\ \E i \in 1..(DIR_ENTRIES - 1) :
                   /\ image.dir[i].valid # 0 /\ image.dir[i].name = name
                   /\ \A j \in 1..(i - 1) :
                        image.dir[j].valid = 0 \/ image.dir[j].name # name
                   /\ d.st.image.dir = [image.dir EXCEPT ![i].valid = 0]
              /\ \A other \in Names :
                   LET c2 == create_file(d.st, other)
                   IN (c2.ret # -1 /\ LowestFreeSlot(d.st) = freed) =>
                        /\ c2.st.image.dir[freed] =
                             [name |-> other, inode_num |-> c2.ret, valid |-> 1]
                        /\ \A j \in Slots \ {freed} :
                             c2.st.image.dir[j] = image.dir[j]

\* Mounted with a working stream and a full directory: deleting the file
\* of slot 1 frees the slot below a valid slot 2, and a create then puts
\* its entry in slot 1.
C29_Witness ==
  /\ is_mounted /\ StreamGood
  /\ DirectoryFull
  /\ \E name \in Names, other \in Names :
       /\ image.dir[1].name = name
       /\ delete_file(St, name).ret
       /\ create_file(delete_file(St, name).st, other).ret # -1
       /\ create_file(delete_file(St, name).st, other).st.image.dir[1].name = other
       /\ create_file(delete_file(St, name).st, other).st.image.dir[2] = image.dir[2]

\* The name has a valid entry in a slot >= 1 of the directory of st.
Listed(st, name) ==
  \E i \in 1..(DIR_ENTRIES - 1) :
    st.image.dir[i].valid # 0 /\ st.image.dir[i].name = name

\* C30: delete_file(name) for a name without a valid entry in the slots
\* >= 1 returns false and leaves the image (directory, inode records, data
\* blocks, both bitmaps) and both superblocks unchanged; after a
\* delete_file(name) that succeeds the name has no such entry, and the
\* second delete_file(name) returns false and leaves everything,
\* free_blocks and free_inodes included, as the first one left it.
C30_DeleteMissingRejected ==
  \A name \in Names :
    LET d == delete_file(St, name)
        again == delete_file(d.st, name)
    IN /\ ~Listed(St, name) =>
            /\ ~d.ret
            /\ d.st.image = image
            /\ d.st.sb = super_block
       /\ d.ret =>
            /\ ~Listed(d.st, name)
            /\ ~again.ret
            /\ again.st.image = d.st.image
            /\ again.st.sb = d.st.sb

\* Mounted with a working stream: one name was never created, one was
\* created and deleted and its slot still carries it, and one names a file
\* with a block, whose first delete succeeds and frees the block and whose
\* second delete fails.
C30_Witness ==
  /\ is_mounted /\ StreamGood
  /\ \E name \in Names :
       /\ \A i \in Slots : image.dir[i].name # name
       /\ ~delete_file(St, name).ret
  /\ \E name \in Names, i \in 1..(DIR_ENTRIES - 1) :
       /\ name # ""
       /\ image.dir[i].name = name /\ image.dir[i].valid = 0
       /\ ~Listed(St, name)
       /\ ~delete_file(St, name).ret
  /\ \E name \in Names :
       /\ delete_file(St, name).ret
       /\ delete_file(St, name).st.sb.free_blocks > super_block.free_blocks
       /\ ~delete_file(delete_file(St, name).st, name).ret

\* WRITE commands: the tokens after the file name and the content they
\* stand for (joined by spaces, one surrounding pair of quotes removed).
WriteCases ==
  { [toks |-> << <<1>> >>, content |-> <<1>>],
    [toks |-> << <<1, 2>>, <<2>> >>, content |-> <<1, 2, Space, 2>>],
    [toks |-> << <<Quote, 1, Quote>> >>, content |-> <<1>>],
    [toks |-> << <<Quote, 2>>, <<1, Quote>> >>, content |-> <<2, Space, 1>>],
    [toks |-> << <<Quote, Quote>> >>, content |-> << >>],
    [toks |-> << <<Quote>> >>, content |-> <<Quote>>],
    [toks |-> << Ones(Capacity) >>, content |-> Ones(Capacity)],
    [toks |-> << Ones(Capacity + 1) >>, content |-> Ones(Capacity + 1)] }

\* Byte k (from 0) of the file of inode f in state st.
ByteAt(st, f, k) ==
  st.image.data[st.image.inodes[f].blocks[k \div BLOCK_SIZE]][k % BLOCK_SIZE]

\* C31: on a mounted filesystem whose stream works, a WRITE command that
\* reports success on a file that existed with size s leaves it with size
\* max(s, n), n the length of the content, its first n bytes equal to the
\* content, every byte from n on in the blocks it held as it was, its block
\* pointers kept and their bitmap bits still set; on a name that had no
\* file, the file exists afterwards with size n and the content as its
\* bytes.
C31_WriteHandler ==
  (is_mounted /\ StreamGood) =>
    \A name \in Names, c \in WriteCases :
      LET h == write_handler(St, <<name>> \o c.toks)
          f == open_file(St, name)
          g == open_file(h.st, name)
          n == Len(c.content)
      IN h.result = "write: ok" =>
           /\ g # -1
           /\ f # -1 => g = f
           /\ h.st.image.inodes[g].size
                = (IF f = -1 THEN n ELSE Max(image.inodes[f].size, n))
           /\ get_file_size(h.st, g) = h.st.image.inodes[g].size
           /\ \A k \in 0..(n - 1) : ByteAt(h.st, g, k) = c.content[k + 1]
           /\ f # -1 =>
                \A i \in 0..(NDIRECT - 1) :
                  image.inodes[f].blocks[i] # 0 =>
                    /\ h.st.image.inodes[f].blocks[i] = image.inodes[f].blocks[i]
                    /\ h.st.image.block_bitmap[image.inodes[f].blocks[i] - L.data_start]
                         = image.block_bitmap[image.inodes[f].blocks[i] - L.data_start]
                    /\ \A p \in 0..(BLOCK_SIZE - 1) :
                         i * BLOCK_SIZE + p >= n =>
                           ByteAt(h.st, f, i * BLOCK_SIZE + p)
                             = ByteAt(St, f, i * BLOCK_SIZE + p)
           /\ h.st.sb.free_blocks <= super_block.free_blocks

\* Mounted with a working stream: a file takes a content of two tokens in
\* quotes (three bytes), then a shorter one and keeps its size and its
\* tail; a name without a file takes a content and has a file afterwards.
C31_Witness ==
  /\ is_mounted /\ StreamGood
  /\ \E name \in Names :
       LET f == open_file(St, name)
           first == write_handler(St, <<name, <<Quote, 2>>, <<1, Quote>> >>)
           second == write_handler(first.st, <<name, <<Quote, 1, Quote>> >>)
       IN /\ f # -1
          /\ first.result = "write: ok"
          /\ get_file_size(first.st, f) = 3
          /\ second.result = "write: ok"
          /\ get_file_size(second.st, f) = 3
          /\ ByteAt(second.st, f, 0) = 1
          /\ ByteAt(second.st, f, 1) = Space
  /\ \E name \in Names :
       /\ open_file(St, name) = -1
       /\ write_handler(St, <<name, <<1>>, <<2>> >>).result = "write: ok"
       /\ open_file(write_handler(St, <<name, <<1>>, <<2>> >>).st, name) # -1

\* C40: on a mounted filesystem whose stream works, a WRITE command that
\* reports an error for a name that had no file leaves no file of that
\* name: the valid directory entries and free_inodes are what they were
\* before the command.
C40_FailedWriteLeavesNoFile ==
  (is_mounted /\ StreamGood) =>
    \A name \in Names, c \in WriteCases :
      LET h == write_handler(St, <<name>> \o c.toks)
      IN (open_file(St, name) = -1 /\ h.result \in WriteErrors) =>
           /\ open_file(h.st, name) = -1
           /\ ValidEntries(h.st) = ValidEntries(St)
           /\ h.st.sb.free_inodes = super_block.free_inodes
           /\ h.st.image.sb.free_inodes = image.sb.free_inodes

\* The block-pointer slots of the used inode records of the image that hold
\* a block: the root's blocks[0] and every pointer of a used file.
PointerSlots ==
  { <<i, k>> \in InodeNums \X (0..(NDIRECT - 1)) :
      /\ image.inodes[i].used = 1
      /\ image.inodes[i].blocks[k] # 0 }

\* C38: on a formatted image no block number is held by two block-pointer
\* slots of used inode records: not by two files, not by two indices of one
\* file, not by a file and the root directory.
C38_NoSharedBlock ==
  Formatted =>
    \A p \in PointerSlots, q \in PointerSlots :
      p # q => image.inodes[p[1]].blocks[p[2]] # image.inodes[q[1]].blocks[q[2]]

\* Two files hold a block each beside the root's, the data region is
\* exhausted, and an inode freed by a delete had held a block before.
C38_Witness ==
  /\ Formatted /\ is_mounted /\ StreamGood
  /\ \E f \in UsedFiles, g \in UsedFiles :
       /\ f # g
       /\ image.inodes[f].blocks[0] # 0
       /\ image.inodes[g].blocks[0] # 0
  /\ super_block.free_blocks = 0
  /\ \E i \in FileInodeNums : image.inodes[i].used = 0 /\ image.inodes[i].size > 0

\* C39: on a formatted image every valid directory entry in a slot >= 1
\* references an inode number in [1, total_inodes) whose record is a used
\* regular file, and no two valid entries reference the same inode number.
C39_EntriesReferenceFiles ==
  Formatted =>
    /\ \A i \in 1..(DIR_ENTRIES - 1) :
         image.dir[i].valid # 0 =>
           /\ image.dir[i].inode_num \in 1..(image.sb.total_inodes - 1)
           /\ image.inodes[image.dir[i].inode_num].used = 1
           /\ image.inodes[image.dir[i].inode_num].type = 1
    /\ \A i \in 1..(DIR_ENTRIES - 1), j \in 1..(DIR_ENTRIES - 1) :
         (i # j /\ image.dir[i].valid # 0 /\ image.dir[j].valid # 0)
           => image.dir[i].inode_num # image.dir[j].inode_num

\* Two valid entries with different inode numbers; deleting the first
\* name and creating another gives the freed number to the new name, and
\* the old name no longer opens.
C39_Witness ==
  /\ Formatted /\ is_mounted /\ StreamGood
  /\ image.dir[1].valid # 0 /\ image.dir[2].valid # 0
  /\ \E other \in Names :
       LET name == image.dir[1].name
           d == delete_file(St, name)
           c == create_file(d.st, other)
       IN /\ other # name
          /\ d.ret
          /\ c.ret = image.dir[1].inode_num
          /\ open_file(c.st, name) = -1
          /\ open_file(c.st, other) = c.ret

\* C36: for every geometry of the builds and every inode number i below
\* total_inodes, the record of sizeof(Inode) bytes at get_inode_pos(i) lies
\* inside [inode_start * block_size, data_start * block_size) and overlaps
\* the record of no other inode; the block bitmap follows the superblock,
\* the inode bitmap the block bitmap, the inode table the inode bitmap and
\* the data region the inode table, each region non-empty, and
\* data_start + data_blocks = total_blocks.
C36_InodeTableHoldsRecords ==
  LET g == pos_calc.geometry
      lay == LayoutOf(g)
      i == pos_calc.inode_num
      size == g.sizeof_inode
  IN /\ i < g.max_inodes =>
          /\ pos_calc.pos = get_inode_pos(g, i)
          /\ pos_calc.pos >= lay.inode_start * g.block_size
          /\ pos_calc.pos + size <= lay.data_start * g.block_size
          /\ \A j \in 0..(g.max_inodes - 1) :
               j # i => \/ get_inode_pos(g, j) + size <= pos_calc.pos
                        \/ pos_calc.pos + size <= get_inode_pos(g, j)
     /\ lay.block_bitmap = 1
     /\ lay.block_bitmap_size > 0
     /\ lay.inode_bitmap = lay.block_bitmap + lay.block_bitmap_size
     /\ lay.inode_bitmap_size > 0
     /\ lay.inode_start = lay.inode_bitmap + lay.inode_bitmap_size
     /\ lay.inode_blocks > 0
     /\ lay.data_start = lay.inode_start + lay.inode_blocks
     /\ lay.data_blocks > 0
     /\ lay.data_start + lay.data_blocks = g.max_blocks

\* The source's geometry with the largest record: the position of the last
\* inode, whose record ends where the data region starts.
C36_Witness ==
  /\ pos_calc.geometry.max_inodes = SRC_MAX_INODES
  /\ pos_calc.geometry.sizeof_inode = SRC_INODE_SIZE
  /\ pos_calc.inode_num = SRC_MAX_INODES - 1
  /\ pos_calc.pos + pos_calc.geometry.sizeof_inode
       = LayoutOf(pos_calc.geometry).data_start * SRC_BLOCK_SIZE

\* C37: wait_for_completion returns only when the task queue is empty and no
\* worker holds a task it has taken and not yet finished.
C37_WaitReturnsWhenIdle ==
  producer.pc = "returned" =>
    /\ task_queue = << >>
    /\ \A w \in Workers : worker[w].task = NoTask

\* The results of the handlers that have run to their end: those of the
\* finished tasks and those of the tasks whose worker is past its handler.
Reported ==
  { id \in 1..MaxTasks : results[id] # NotFinished }
    \cup { worker[w].task.id : w \in { x \in Workers :
                                 worker[x].pc \in {"unlock_disk", "finish"} } }

ResultOf(id) ==
  IF results[id] # NotFinished THEN results[id]
  ELSE worker[CHOOSE w \in Workers : worker[w].task.id = id].task.result

\* The worker that took task id from the queue.
TakenBy(id) == (CHOOSE k \in DOMAIN dequeued : dequeued[k].id = id)

FreshFreeInodes ==
  mount(format([ image |-> ZeroImage(FALSE), sb |-> ZeroSuperBlock,
                 mounted |-> FALSE, fail |-> FALSE ]).st).st.sb.free_inodes

\* C32: when TOUCH tasks of one name that does not exist yet run on the
\* workers, in every interleaving exactly one handler creates the file and
\* every other one reports that it exists; from the creation on exactly one
\* valid directory entry has the name, free_inodes is one below its value
\* before, and the inode bits set are the root's and that entry's.
C32_ConcurrentTouch ==
  LET created == { id \in Reported : ResultOf(id) = "touch: created" }
      entries == { i \in Slots : image.dir[i].valid # 0
                                   /\ image.dir[i].name = "a" }
  IN /\ \A id \in Reported : ResultOf(id) \in {"touch: created", "touch: exists"}
     /\ Reported # {} => Cardinality(created) = 1
     /\ Cardinality(entries) = Cardinality(created)
     /\ super_block.free_inodes = FreshFreeInodes - Cardinality(created)
     /\ image.sb.free_inodes = super_block.free_inodes
     /\ \A n \in InodeNums :
          image.inode_bitmap[n] = 1 <=>
            n = 0 \/ \E i \in entries : image.dir[i].inode_num = n

\* Two tasks taken by different workers have finished, and the one that was
\* enqueued later is the one that created the file.
C32_Witness ==
  \E i, j \in 1..MaxTasks :
    /\ i < j
    /\ results[i] = "touch: exists"
    /\ results[j] = "touch: created"
    /\ dequeued[TakenBy(i)].by # dequeued[TakenBy(j)].by

\* The positions of a worker between taking a task and finishing it.
HandlerPcs == {"lock_disk", "execute", "touch_create", "unlock_disk", "finish"}

\* C35: the dequeue ends the worker's loop (Shutdown) only when the running
\* flag is cleared and the queue is empty, and yields a task only from a
\* non-empty queue, the task at its head, which leaves the queue; a worker
\* that is in its handler holds a task that was enqueued, whatever wake-ups
\* preceded.
C35_DequeueContract ==
  [][\A w \in Workers :
       /\ (worker[w].pc = "check" /\ worker'[w].pc = "done")
            => (~running /\ task_queue = << >> /\ task_queue' = << >>
                  /\ worker'[w].task = NoTask)
       /\ (worker[w].pc = "check" /\ worker'[w].pc = "lock_disk")
            => /\ task_queue # << >>
               /\ worker'[w].task = Head(task_queue)
               /\ task_queue' = Tail(task_queue)
       /\ worker'[w].pc = "lock_disk" => worker[w].pc \in {"check", "lock_disk"}
       /\ worker'[w].pc \in HandlerPcs
            => /\ worker'[w].task # NoTask
               /\ worker'[w].task.id \in 1..producer.count
               /\ worker'[w].task.type \in {"TOUCH", "RM", "EXIT"}]_vars

\* One worker runs the handler of the only task enqueued while the other has
\* been woken from its wait and will find the queue empty.
C35_Witness ==
  \E w1, w2 \in Workers :
    /\ w1 # w2
    /\ running
    /\ producer.count = 1
    /\ task_queue = << >>
    /\ worker[w1].pc = "execute"
    /\ worker[w1].task.id = 1
    /\ worker[w2].pc = "blocked"
    /\ w2 \notin cv_waiters

\* The filesystem after main has formatted and mounted the image.
FreshSt ==
  mount(format([ image |-> ZeroImage(FALSE), sb |-> ZeroSuperBlock,
                 mounted |-> FALSE, fail |-> FALSE ]).st).st

\* The tasks whose handler has made its filesystem calls, in the order the
\* handlers took the filesystem mutex.
Effected ==
  IF \E w \in Workers : worker[w].pc \in {"execute", "touch_create"}
  THEN SubSeq(executed, 1, Len(executed) - 1)
  ELSE executed

\* The tasks in the order they left the queue.
DequeuedTasks ==
  [k \in DOMAIN dequeued |->
     IF \E e \in DOMAIN executed : executed[e].id = dequeued[k].id
     THEN executed[CHOOSE e \in DOMAIN executed : executed[e].id = dequeued[k].id]
     ELSE worker[dequeued[k].by].task]

\* C33: the filesystem is what the whole handlers leave when run one after
\* the other in the order they took the filesystem mutex, and each handler's
\* result is the one it has in that run; two tasks taken by the same worker
\* run in the order they were taken.
C33_SerialHandlers ==
  /\ St = Serial(FreshSt, Effected).st
  /\ \A k \in DOMAIN Effected :
       ResultOf(Effected[k].id) = Serial(FreshSt, Effected).results[k]
  /\ \A i, j \in DOMAIN dequeued :
       (i < j /\ dequeued[i].by = dequeued[j].by) =>
         \A e \in DOMAIN executed :
           executed[e].id = dequeued[j].id =>
             \E d \in 1..(e - 1) : executed[d].id = dequeued[i].id

\* Two workers: every task has finished, the handlers took the mutex in
\* another order than the tasks left the queue, and the filesystem is not
\* the one the dequeue order would have left.
C33_Witness ==
  /\ producer.count = MaxTasks
  /\ \A id \in 1..MaxTasks : results[id] # NotFinished
  /\ \E k \in DOMAIN executed : executed[k].id # dequeued[k].id
  /\ St = Serial(FreshSt, executed).st
  /\ St # Serial(FreshSt, DequeuedTasks).st

\* Task id is in the queue.
Queued(id) == \E k \in DOMAIN task_queue : task_queue[k].id = id

\* Every worker is blocked in the wait of its dequeue, not notified.
AllBlocked ==
  \A w \in Workers : worker[w].pc = "blocked" /\ w \in cv_waiters

\* C34: while the pool is running, under fair scheduling every task that is
\* enqueued is eventually taken from the queue and its handler run to the
\* end; no state has a task in the queue and every worker blocked in its
\* wait.
C34_EnqueuedIsExecuted ==
  /\ [](running /\ (task_queue # << >> => ~AllBlocked))
  /\ \A id \in 1..MaxTasks : Queued(id) ~> (results[id] # NotFinished)

\* Every task the producer could enqueue has finished and the workers are
\* blocked in their wait again.
C34_Witness ==
  /\ producer.count = MaxTasks
  /\ \A id \in 1..MaxTasks : results[id] \in {"touch: created", "touch: exists"}
  /\ AllBlocked
  /\ task_queue = << >>

====
